---- MODULE Spec2Model ----
(***************************************************************************)
(* A model of the device library catalog: the LibraryVersion "current"     *)
(* flag (library/models.py), the YAML importer (library/importers.py) and  *)
(* the YAML exporter (library/exporters.py).                               *)
(*                                                                         *)
(* Tables are sets of rows; a foreign key holds the key of the row it      *)
(* points to.  A YAML node is a record with a "tag" field ("map", "str");  *)
(* a mapping's keys are the record's other fields, so a key may be present *)
(* or absent as in the parsed document.                                    *)
(***************************************************************************)
EXTENDS Integers, Sequences, FiniteSets, TLC

VARIABLES
    versions,   \* LibraryVersion table: set of rows [pk, schema_version, is_current]
    saves,      \* per request: position inside LibraryVersion.save and its instance
    db,         \* the catalog tables (vendors, devices, config rows, registers)
    fs,         \* the YAML files on disk: manifest and per-vendor files
                \* (left empty where the files are read as the run goes)
    imp,        \* the running import_from_yaml call: position, arguments, stats
    snap,       \* the catalog as it was when export_to_yaml last ran, or
                \* when the import run began (re-import runs)
    out         \* what the last export run or manifest request returned

vars == <<versions, saves, db, fs, imp, snap, out>>

(***************************************************************************)
(* Bounds of the model.                                                    *)
(***************************************************************************)
MaxVersions == 4
MaxVendorEntries == 2
MaxDeviceEntries == 2

(***************************************************************************)
(* LibraryVersion (library/models.py) and VersionCreateView.               *)
(***************************************************************************)
VersionIds == 1..MaxVersions
SchemaVersions == {1, 2}
Procs == {1, 2}

NoInstance == [pk |-> 0, schema_version |-> 0, is_current |-> FALSE]

\* A plausible slip in save(): the update of the other rows is left out.
UnsetOthersSkipped(rows, pk) == rows

\* LibraryVersion.objects.filter(is_current=True).exclude(pk=self.pk)
\*     .update(is_current=False)
UnsetOthers(rows, pk) ==
    {IF r.is_current /\ r.pk # pk THEN [r EXCEPT !.is_current = FALSE] ELSE r
        : r \in rows}

\* super().save(): insert the instance, or update the row with its pk.
WriteRow(rows, inst) ==
    {r \in rows : r.pk # inst.pk} \cup {inst}

\* LibraryVersion.save, run to completion.
SaveVersion(rows, inst) ==
    WriteRow(IF inst.is_current THEN UnsetOthers(rows, inst.pk) ELSE rows, inst)

CurrentVersions == {r \in versions : r.is_current}

\* VersionCreateView.form_valid: a new row (fresh pk), is_current forced to True.
VersionCreate ==
    \E pk \in VersionIds, sv \in SchemaVersions :
        /\ \A r \in versions : r.pk # pk
        /\ versions' = SaveVersion(versions,
                [pk |-> pk, schema_version |-> sv, is_current |-> TRUE])
        /\ UNCHANGED <<saves, db, fs, imp, snap, out>>

\* Any other save of a new or an existing row (the admin's change form),
\* with is_current true or false.
VersionSave ==
    \E pk \in VersionIds, sv \in SchemaVersions, cur \in BOOLEAN :
        /\ versions' = SaveVersion(versions,
                [pk |-> pk, schema_version |-> sv, is_current |-> cur])
        /\ UNCHANGED <<saves, db, fs, imp, snap, out>>

\* Two requests inside LibraryVersion.save at once: the statement that
\* unsets the other rows and the statement that writes the own row are two
\* steps, and nothing in save() orders them against another request's.
SaveBegin(p) ==
    \E pk \in VersionIds, sv \in SchemaVersions :
        /\ saves[p].pc = "idle"
        /\ \A r \in versions : r.pk # pk
        /\ \A q \in Procs : saves[q].pc = "idle" \/ saves[q].inst.pk # pk
        /\ saves' = [saves EXCEPT ![p] = [pc |-> "unset",
                inst |-> [pk |-> pk, schema_version |-> sv, is_current |-> TRUE]]]
        /\ UNCHANGED <<versions, db, fs, imp, snap, out>>

SaveUnset(p) ==
    /\ saves[p].pc = "unset"
    /\ versions' = IF saves[p].inst.is_current
                   THEN UnsetOthers(versions, saves[p].inst.pk) ELSE versions
    /\ saves' = [saves EXCEPT ![p].pc = "write"]
    /\ UNCHANGED <<db, fs, imp, snap, out>>

SaveWrite(p) ==
    /\ saves[p].pc = "write"
    /\ versions' = WriteRow(versions, saves[p].inst)
    /\ saves' = [saves EXCEPT ![p] = [pc |-> "idle", inst |-> NoInstance]]
    /\ UNCHANGED <<db, fs, imp, snap, out>>

\* The admin's delete of a version row.
VersionDelete ==
    \E r \in versions :
        /\ versions' = versions \ {r}
        /\ UNCHANGED <<saves, db, fs, imp, snap, out>>

InitVersions ==
    /\ versions = {}
    /\ saves = [p \in Procs |-> [pc |-> "idle", inst |-> NoInstance]]

(***************************************************************************)
(* YAML nodes.  yaml.safe_load gives mappings, lists, strings, numbers and *)
(* None; a mapping is a record tagged "map" whose other fields are its     *)
(* keys, a scalar where a mapping is expected is a record tagged "str",    *)
(* None in a string position is Null and in an integer position NullInt.   *)
(***************************************************************************)
Null == "<null>"
NullInt == 0 - 1
EmptyMap == [tag |-> "map"]

IsMap(node) == node.tag = "map"

\* dict.get(key, default)
Get(node, key, default) == IF key \in DOMAIN node THEN node[key] ELSE default

\* The Python idiom  value or ""  on a string or None.
OrEmpty(v) == IF v = Null THEN "" ELSE v

\* The truth value of a mapping: it has a key.
MapTruthy(node) == DOMAIN node # {"tag"}

\* The truth value of a string or None.
StrTruthy(v) == v # "" /\ v # Null

(***************************************************************************)
(* The catalog tables (library/models.py).  A DeviceType row is referred   *)
(* to by its (vendor, model_number) pair and a Vendor row by its slug:     *)
(* these stand for the rows' UUID primary keys in the foreign keys.        *)
(***************************************************************************)
EmptyCatalog ==
    [vendors |-> {}, devices |-> {}, modbus |-> {}, registers |-> {},
     lorawan |-> {}, wmbus |-> {}, control |-> {}, processor |-> {}]

DeviceKey(r) == <<r.vendor, r.model_number>>

\* on_delete=CASCADE from DeviceType to its config rows and registers.
DeleteDevices(d, keys) ==
    [d EXCEPT !.devices = {r \in @ : DeviceKey(r) \notin keys},
              !.modbus = {r \in @ : r.device \notin keys},
              !.registers = {r \in @ : r.device \notin keys},
              !.lorawan = {r \in @ : r.device \notin keys},
              !.wmbus = {r \in @ : r.device \notin keys},
              !.control = {r \in @ : r.device \notin keys},
              !.processor = {r \in @ : r.device \notin keys}]

\* A plausible slip: the vendor rows go and their DeviceType rows stay.
DeleteVendorsNoCascade(d, slugs) ==
    [d EXCEPT !.vendors = {v \in @ : v.slug \notin slugs}]

\* on_delete=CASCADE from Vendor to its DeviceType rows.
DeleteVendors(d, slugs) ==
    LET gone == {DeviceKey(r) : r \in {x \in d.devices : x.vendor \in slugs}}
    IN  [DeleteDevices(d, gone) EXCEPT !.vendors = {v \in @ : v.slug \notin slugs}]

\* django.utils.text.slugify on the vendor names of the model: lower case,
\* runs of spaces and hyphens become one hyphen.
Slugify(name) ==
    CASE name = "Acme" -> "acme"
      [] name = "ACME" -> "acme"
      [] name = "Bolt" -> "bolt"
      [] OTHER -> "x"

(***************************************************************************)
(* The importer (library/importers.py).  An operation that can raise       *)
(* returns the catalog it leaves behind and the exception ("" for none):   *)
(* outside a transaction the rows written before the exception stay.       *)
(***************************************************************************)
\* The register row one register_definitions entry becomes.
RegisterRow(dev, n, reg, field) ==
    [device |-> dev, n |-> n,
     field_name |-> Get(field, "name", ""),
     field_unit |-> OrEmpty(Get(field, "unit", "")),
     address |-> Get(reg, "address", 0),
     data_type |-> Get(reg, "data_type", "uint16"),
     scale |-> Get(reg, "scale", 1),
     offset |-> Get(reg, "offset", 0)]

\* The for loop of _import_modbus_config from entry i on.
RECURSIVE CreateRegisters(_, _, _, _)
CreateRegisters(d, dev, list, i) ==
    IF i > Len(list) THEN [db |-> d, exc |-> ""]
    ELSE IF ~IsMap(list[i]) THEN [db |-> d, exc |-> "AttributeError"]
    ELSE IF ~IsMap(Get(list[i], "field", EmptyMap))
         THEN [db |-> d, exc |-> "AttributeError"]
    ELSE LET row == RegisterRow(dev, i, list[i], Get(list[i], "field", EmptyMap))
         IN  IF row.field_name = Null \/ row.address = NullInt
                \/ row.data_type = Null
             THEN [db |-> d, exc |-> "IntegrityError"]
             ELSE CreateRegisters([d EXCEPT !.registers = @ \cup {row}],
                                  dev, list, i + 1)

\* A plausible slip: the existing registers are kept and the new ones added.
ClearRegistersSkipped(d, dev) == d

\* modbus_config.register_definitions.all().delete()
ClearRegisters(d, dev) ==
    [d EXCEPT !.registers = {r \in @ : r.device # dev}]

\* ModbusConfig.objects.update_or_create(device_type=device, defaults=...)
UpsertModbus(d, dev, tc) ==
    [d EXCEPT !.modbus = {r \in @ : r.device # dev} \cup
        {[device |-> dev,
          function |-> Get(tc, "function", ""),
          byte_order |-> Get(tc, "byte_order", ""),
          word_order |-> Get(tc, "word_order", "")]}]

_import_modbus_config(d, dev, tc) ==
    IF Null \in {Get(tc, "function", ""), Get(tc, "byte_order", ""),
                 Get(tc, "word_order", "")}
    THEN [db |-> d, exc |-> "IntegrityError"]
    ELSE CreateRegisters(ClearRegisters(UpsertModbus(d, dev, tc), dev), dev,
                         Get(tc, "register_definitions", <<>>), 1)

_import_lorawan_config(d, dev, tc) ==
    IF Get(tc, "device_class", "") = Null
    THEN [db |-> d, exc |-> "IntegrityError"]
    ELSE [db |-> [d EXCEPT !.lorawan = {r \in @ : r.device # dev} \cup
                    {[device |-> dev,
                      device_class |-> Get(tc, "device_class", ""),
                      downlink_f_port |-> Get(tc, "downlink_f_port", NullInt)]}],
          exc |-> ""]

_import_wmbus_config(d, dev, tc) ==
    IF Null \in {Get(tc, "manufacturer_code", ""),
                 Get(tc, "shared_encryption_key", "")}
    THEN [db |-> d, exc |-> "IntegrityError"]
    ELSE [db |-> [d EXCEPT !.wmbus = {r \in @ : r.device # dev} \cup
                    {[device |-> dev,
                      manufacturer_code |-> Get(tc, "manufacturer_code", ""),
                      wmbus_device_type |-> Get(tc, "wmbus_device_type", NullInt),
                      data_record_mapping |-> Get(tc, "data_record_mapping", <<>>),
                      encryption_required |-> Get(tc, "encryption_required", FALSE),
                      shared_encryption_key |->
                          Get(tc, "shared_encryption_key", "")]}],
          exc |-> ""]

\* A plausible slip: the row is always inserted, the lookup is left out.
UpsertDeviceAlwaysInsert(d, vendor, data, technology) ==
    [d EXCEPT !.devices = @ \cup
        {[vendor |-> vendor, model_number |-> data.model_number,
          name |-> Get(data, "name", ""),
          device_type |-> Get(data, "device_type", ""),
          technology |-> technology,
          description |-> OrEmpty(Get(data, "description", ""))]}]

\* DeviceType.objects.update_or_create(vendor=, model_number=, defaults=...):
\* the row with this pair gets the four fields overwritten, or a row is added.
UpsertDevice(d, vendor, data, technology) ==
    [d EXCEPT !.devices =
        {r \in @ : DeviceKey(r) # <<vendor, data.model_number>>} \cup
        {[vendor |-> vendor, model_number |-> data.model_number,
          name |-> Get(data, "name", ""),
          device_type |-> Get(data, "device_type", ""),
          technology |-> technology,
          description |-> OrEmpty(Get(data, "description", ""))]}]

\* A plausible slip: the created flag is not looked at.
CountDeviceAlwaysCreated(st, created) ==
    [st EXCEPT !.devices_created = @ + 1]

\* stats["devices_created"] += 1  or  stats["devices_updated"] += 1
CountDevice(st, created) ==
    IF created THEN [st EXCEPT !.devices_created = @ + 1]
    ELSE [st EXCEPT !.devices_updated = @ + 1]

\* The three-way dispatch on technology of _import_device.
ImportTechConfig(d, dev, technology, tc) ==
    CASE technology = "modbus" -> _import_modbus_config(d, dev, tc)
      [] technology = "lorawan" -> _import_lorawan_config(d, dev, tc)
      [] technology = "wmbus" -> _import_wmbus_config(d, dev, tc)
      [] OTHER -> [db |-> d, exc |-> ""]

\* Lines 121-130: the control config is written only when the block has a
\* true controllable or non-empty capabilities.
ImportControlConfig(d, dev, data) ==
    LET cd == Get(data, "control_config", EmptyMap)
    IN  IF ~IsMap(cd) THEN [db |-> d, exc |-> "AttributeError"]
        ELSE IF MapTruthy(cd) /\ (Get(cd, "controllable", FALSE)
                                  \/ MapTruthy(Get(cd, "capabilities", EmptyMap)))
        THEN [db |-> [d EXCEPT !.control = {r \in @ : r.device # dev} \cup
                        {[device |-> dev,
                          controllable |-> Get(cd, "controllable", FALSE),
                          capabilities |-> Get(cd, "capabilities", EmptyMap)]}],
              exc |-> ""]
        ELSE [db |-> d, exc |-> ""]

\* A plausible slip: the processor config is written whatever the block holds.
ImportProcessorConfigAlways(d, dev, data) ==
    LET pd == Get(data, "processor_config", EmptyMap)
    IN  IF ~IsMap(pd) THEN [db |-> d, exc |-> "AttributeError"]
        ELSE [db |-> [d EXCEPT !.processor = {r \in @ : r.device # dev} \cup
                        {[device |-> dev,
                          decoder_type |-> Get(pd, "decoder_type", "")]}],
              exc |-> ""]

\* Lines 132-140: the processor config is written only when decoder_type is
\* non-empty.
ImportProcessorConfig(d, dev, data) ==
    LET pd == Get(data, "processor_config", EmptyMap)
    IN  IF ~IsMap(pd) THEN [db |-> d, exc |-> "AttributeError"]
        ELSE IF MapTruthy(pd) /\ StrTruthy(Get(pd, "decoder_type", Null))
        THEN [db |-> [d EXCEPT !.processor = {r \in @ : r.device # dev} \cup
                        {[device |-> dev, decoder_type |-> pd.decoder_type]}],
              exc |-> ""]
        ELSE [db |-> d, exc |-> ""]

\* The part of _import_device after the DeviceType upsert (lines 113-140).
ImportConfigs(d, dev, technology, data) ==
    LET tech == ImportTechConfig(d, dev, technology,
                                 Get(data, "technology_config", EmptyMap))
    IN  IF tech.exc # "" THEN tech
        ELSE LET ctrl == ImportControlConfig(tech.db, dev, data)
             IN  IF ctrl.exc # "" THEN ctrl
                 ELSE ImportProcessorConfig(ctrl.db, dev, data)

\* _import_device(vendor, data, stats): the catalog and the stats it leaves,
\* and the exception it raised, if any.
_import_device(d, st, vendor, data) ==
    IF ~IsMap(data) THEN [db |-> d, stats |-> st, exc |-> "AttributeError"]
    ELSE IF ~IsMap(Get(data, "technology_config", EmptyMap))
    THEN [db |-> d, stats |-> st, exc |-> "AttributeError"]
    ELSE IF "model_number" \notin DOMAIN data
    THEN [db |-> d, stats |-> st, exc |-> "KeyError"]
    ELSE
    LET tc == Get(data, "technology_config", EmptyMap)
        technology == Get(tc, "technology", "")
        dev == <<vendor, data.model_number>>
        created == \A r \in d.devices : DeviceKey(r) # dev
    IN  IF Null \in {data.model_number, Get(data, "name", ""),
                     Get(data, "device_type", ""), technology}
        THEN [db |-> d, stats |-> st, exc |-> "IntegrityError"]
        ELSE LET res == ImportConfigs(UpsertDevice(d, vendor, data, technology),
                                      dev, technology, data)
             IN  [db |-> res.db, stats |-> CountDevice(st, created),
                  exc |-> res.exc]


(***************************************************************************)
(* import_from_yaml as a process: imp.pc is its position, imp.vi the       *)
(* manifest entry the vendor loop is at, imp.di the device entry of the    *)
(* vendor file the device loop is at and imp.n the length of that file's   *)
(* device_types list.                                                      *)
(***************************************************************************)
NewStats ==
    [vendors_created |-> 0, vendors_updated |-> 0,
     devices_created |-> 0, devices_updated |-> 0, errors |-> <<>>]

IdleImport ==
    [pc |-> "idle", clear |-> FALSE, manifest |-> <<>>, vi |-> 0, di |-> 0,
     n |-> 0, stats |-> NewStats, exc |-> "", sawEmpty |-> FALSE,
     dirty |-> FALSE, hadRegs |-> FALSE, prev |-> "idle"]

IsEmpty(d) == d.vendors = {} /\ d.devices = {}

\* Where the vendor loop stands once entry i is finished.
AfterVendor(im, i) ==
    IF i + 1 > Len(im.manifest)
    THEN [im EXCEPT !.pc = "done", !.vi = i, !.di = 0, !.n = 0]
    ELSE [im EXCEPT !.pc = "vendors", !.vi = i + 1, !.di = 0, !.n = 0]

\* Where the device loop stands once entry imp.di is finished.
AfterDevice(im) ==
    IF im.di + 1 > im.n THEN AfterVendor(im, im.vi)
    ELSE [im EXCEPT !.di = @ + 1]

\* A plausible slip: the check of the devices directory is left out.
PathsExistManifestOnly(manifest_exists, devices_exists) == manifest_exists

\* Lines 31-34: both paths must exist.
PathsExist(manifest_exists, devices_exists) == manifest_exists /\ devices_exists

\* The call, its path checks and the load of the manifest (lines 28-45).
\* imp.dirty records whether the catalog held rows when the call began.
ImportCall(manifest_exists, devices_exists, clear, manifest) ==
    LET new == [IdleImport EXCEPT !.clear = clear, !.dirty = ~IsEmpty(db)]
    IN  IF ~PathsExist(manifest_exists, devices_exists)
        THEN [new EXCEPT !.pc = "raised", !.exc = "FileNotFoundError"]
        ELSE IF clear
        THEN [new EXCEPT !.pc = "clear_devices", !.manifest = manifest]
        ELSE AfterVendor([new EXCEPT !.manifest = manifest], 0)

ImportStart(manifest_exists, devices_exists, clear, manifest) ==
    /\ imp.pc \in {"idle", "done", "raised"}
    /\ imp' = ImportCall(manifest_exists, devices_exists, clear, manifest)
    /\ UNCHANGED <<versions, saves, db, fs, snap, out>>

\* DeviceType.objects.all().delete()
ClearAllDevices(d) == DeleteDevices(d, {DeviceKey(r) : r \in d.devices})

\* A plausible slip: the deletion of the vendors is left out.
ClearAllVendorsSkipped(d) == d

\* Vendor.objects.all().delete()
ClearAllVendors(d) == DeleteVendors(d, {v.slug : v \in d.vendors})

ImportClearDevices ==
    /\ imp.pc = "clear_devices"
    /\ db' = ClearAllDevices(db)
    /\ imp' = [imp EXCEPT !.pc = "clear_vendors", !.sawEmpty = IsEmpty(db')]
    /\ UNCHANGED <<versions, saves, fs, snap, out>>

ImportClearVendors ==
    /\ imp.pc = "clear_vendors"
    /\ db' = ClearAllVendors(db)
    /\ imp' = [AfterVendor(imp, 0) EXCEPT !.sawEmpty = @ \/ IsEmpty(db')]
    /\ UNCHANGED <<versions, saves, fs, snap, out>>

FileError(file) ==
    [kind |-> "file", model |-> "", vendor |-> "", file |-> file]

DeviceError(data, vendor_name) ==
    [kind |-> "device", model |-> Get(data, "model_number", "?"),
     vendor |-> vendor_name, file |-> ""]

\* Vendor.objects.get_or_create(slug=slugify(vendor_name),
\*                              defaults={"name": vendor_name})
GetOrCreateVendor(d, name) ==
    IF \E v \in d.vendors : v.slug = Slugify(name) THEN d
    ELSE [d EXCEPT !.vendors = @ \cup {[slug |-> Slugify(name), name |-> name]}]

\* A plausible slip: the loop is left (break) where it should continue.
SkipMissingFileBreaks(im, file) ==
    [im EXCEPT !.pc = "done", !.di = 0, !.n = 0,
               !.stats.errors = Append(@, FileError(file))]

\* Lines 57-60: record the error and continue with the next vendor entry.
SkipMissingFile(im, file) ==
    AfterVendor([im EXCEPT !.stats.errors = Append(@, FileError(file))], im.vi)

\* One pass of the vendor loop up to the device loop (lines 52-77), for a
\* vendor file that exists or not, holds a device_types list or not, of
\* length n.
ImportVendor(exists, has_types, n) ==
    /\ imp.pc = "vendors"
    /\ LET entry == imp.manifest[imp.vi]
           created == \A v \in db.vendors : v.slug # Slugify(entry.name)
           st == IF created
                 THEN [imp.stats EXCEPT !.vendors_created = @ + 1]
                 ELSE [imp.stats EXCEPT !.vendors_updated = @ + 1]
       IN  IF ~exists
           THEN /\ db' = db
                /\ imp' = SkipMissingFile(imp, entry.file)
           ELSE /\ db' = GetOrCreateVendor(db, entry.name)
                /\ imp' = IF has_types /\ n > 0
                          THEN [imp EXCEPT !.pc = "devices", !.stats = st,
                                           !.di = 1, !.n = n]
                          ELSE AfterVendor([imp EXCEPT !.stats = st], imp.vi)
    /\ UNCHANGED <<versions, saves, fs, snap, out>>

\* One pass of the device loop (lines 79-85) for the entry data.
\* imp.hadRegs records whether the entry's device held register rows when
\* the pass began.
ImportEntry(data) ==
    /\ imp.pc = "devices"
    /\ LET entry == imp.manifest[imp.vi]
           res == _import_device(db, imp.stats, Slugify(entry.name), data)
           had == /\ IsMap(data)
                  /\ "model_number" \in DOMAIN data
                  /\ \E r \in db.registers :
                        r.device = <<Slugify(entry.name), data.model_number>>
           next == IF res.exc = ""
                   THEN AfterDevice([imp EXCEPT !.stats = res.stats])
                   ELSE IF ~IsMap(data)
                   \* the handler's device_data.get raises in its turn
                   THEN [imp EXCEPT !.pc = "raised", !.stats = res.stats,
                                    !.exc = "AttributeError"]
                   ELSE AfterDevice([imp EXCEPT !.stats =
                            [res.stats EXCEPT !.errors =
                                Append(@, DeviceError(data, entry.name))]])
       IN  /\ db' = res.db
           /\ imp' = [next EXCEPT !.hadRegs = had]
    /\ UNCHANGED <<versions, saves, fs, snap, out>>

(***************************************************************************)
(* The exporter (library/exporters.py).  A mapping with optional keys is   *)
(* put together with @@ from the keys that are written.                    *)
(***************************************************************************)
\* The rank of a vendor name and of a model number in their sort order.
NameRank(name) ==
    CASE name = "ACME" -> 1
      [] name = "Acme" -> 2
      [] name = "Bolt" -> 3
      [] OTHER -> 4

ModelRank(model_number) ==
    CASE model_number = "M1" -> 1
      [] model_number = "M2" -> 2
      [] OTHER -> 3

\* The rows of S as the list a queryset gives: ascending in rank, a
\* function on the rows.
RECURSIVE Ordered(_, _)
Ordered(S, rank) ==
    IF S = {} THEN <<>>
    ELSE LET first == CHOOSE r \in S : \A o \in S : rank[r] <= rank[o]
         IN  <<first>> \o Ordered(S \ {first}, rank)

VendorRank(v) == NameRank(v.name)
DeviceRank(r) == ModelRank(r.model_number)
\* A plausible slip: no Meta.ordering, the rows come in the order of creation.
RegisterRankCreated(r) == r.n

\* Meta.ordering = ["address"]; rows of one address in the order of creation.
RegisterRank(r) == r.address * 10 + r.n

\* f"{vendor.slug}.yaml"
FileName(slug) ==
    CASE slug = "acme" -> "acme.yaml"
      [] slug = "bolt" -> "bolt.yaml"
      [] OTHER -> "x.yaml"

ExportRegister(reg) ==
    [tag |-> "map",
     field |-> [tag |-> "map", name |-> reg.field_name, unit |-> reg.field_unit],
     scale |-> reg.scale, offset |-> reg.offset,
     address |-> reg.address, data_type |-> reg.data_type]

ExportModbus(d, dev) ==
    IF \A m \in d.modbus : m.device # dev THEN <<>>
    ELSE LET modbus == CHOOSE m \in d.modbus : m.device = dev
             rows == Ordered({r \in d.registers : r.device = dev},
                             [r \in d.registers |-> RegisterRank(r)])
             registers == [i \in 1..Len(rows) |-> ExportRegister(rows[i])]
         IN  (IF StrTruthy(modbus.function)
              THEN [function |-> modbus.function] ELSE <<>>)
             @@ (IF StrTruthy(modbus.byte_order)
                 THEN [byte_order |-> modbus.byte_order] ELSE <<>>)
             @@ (IF StrTruthy(modbus.word_order)
                 THEN [word_order |-> modbus.word_order] ELSE <<>>)
             @@ (IF registers # <<>>
                 THEN [register_definitions |-> registers] ELSE <<>>)

ExportLorawan(d, dev) ==
    IF \A c \in d.lorawan : c.device # dev THEN <<>>
    ELSE LET lorawan == CHOOSE c \in d.lorawan : c.device = dev
         IN  (IF StrTruthy(lorawan.device_class)
              THEN [device_class |-> lorawan.device_class] ELSE <<>>)
             @@ (IF lorawan.downlink_f_port # NullInt
                 THEN [downlink_f_port |-> lorawan.downlink_f_port] ELSE <<>>)

ExportWmbus(d, dev) ==
    IF \A c \in d.wmbus : c.device # dev THEN <<>>
    ELSE LET wmbus == CHOOSE c \in d.wmbus : c.device = dev
         IN  [manufacturer_code |-> wmbus.manufacturer_code,
              wmbus_device_type |-> wmbus.wmbus_device_type,
              data_record_mapping |-> wmbus.data_record_mapping,
              encryption_required |-> wmbus.encryption_required]
             @@ (IF StrTruthy(wmbus.shared_encryption_key)
                 THEN [shared_encryption_key |-> wmbus.shared_encryption_key]
                 ELSE <<>>)

\* A plausible slip: the fields of every config row the device holds are
\* written, whatever its technology.
_export_tech_config_every_row(d, device) ==
    [tag |-> "map", technology |-> device.technology]
    @@ ExportModbus(d, DeviceKey(device))
    @@ ExportLorawan(d, DeviceKey(device))
    @@ ExportWmbus(d, DeviceKey(device))

_export_tech_config(d, device) ==
    [tag |-> "map", technology |-> device.technology]
    @@ CASE device.technology = "modbus" -> ExportModbus(d, DeviceKey(device))
         [] device.technology = "lorawan" -> ExportLorawan(d, DeviceKey(device))
         [] device.technology = "wmbus" -> ExportWmbus(d, DeviceKey(device))
         [] OTHER -> <<>>

_export_control_config(d, device) ==
    IF \A c \in d.control : c.device # DeviceKey(device) THEN EmptyMap
    ELSE LET ctrl == CHOOSE c \in d.control : c.device = DeviceKey(device)
         IN  [tag |-> "map", capabilities |-> ctrl.capabilities,
              controllable |-> ctrl.controllable]

_export_processor_config(d, device) ==
    IF \A c \in d.processor : c.device # DeviceKey(device) THEN EmptyMap
    ELSE LET proc == CHOOSE c \in d.processor : c.device = DeviceKey(device)
         IN  IF StrTruthy(proc.decoder_type)
             THEN [tag |-> "map", decoder_type |-> proc.decoder_type]
             ELSE EmptyMap

VendorName(d, slug) == (CHOOSE v \in d.vendors : v.slug = slug).name

_export_device(d, device) ==
    [tag |-> "map",
     vendor_name |-> VendorName(d, device.vendor),
     model_number |-> device.model_number,
     name |-> device.name,
     device_type |-> device.device_type,
     description |-> OrEmpty(device.description),
     technology_config |-> _export_tech_config(d, device),
     control_config |-> _export_control_config(d, device),
     processor_config |-> _export_processor_config(d, device)]

\* The vendor file of one vendor: {"device_types": [...]}.
ExportVendorFile(d, slug) ==
    LET devices == Ordered({r \in d.devices : r.vendor = slug},
                           [r \in d.devices |-> DeviceRank(r)])
    IN  [tag |-> "map",
         device_types |-> [i \in 1..Len(devices) |-> _export_device(d, devices[i])]]

\* A plausible slip: no vendor is skipped.
SkipVendorNever(devices) == FALSE

\* if not devices.exists(): continue
SkipVendor(devices) == devices = <<>>

\* What an export run has written and counted before its first vendor.
NoExport ==
    [files |-> <<>>, manifest_vendors |-> <<>>,
     stats |-> [vendors_exported |-> 0, devices_exported |-> 0]]

\* The vendor loop of export_to_yaml from vendor i on: the files written,
\* the manifest entries and the stats.
RECURSIVE ExportVendors(_, _, _, _)
ExportVendors(d, vendors, i, run) ==
    IF i > Len(vendors) THEN run
    ELSE LET vendor == vendors[i]
             vendor_data == ExportVendorFile(d, vendor.slug)
             filename == FileName(vendor.slug)
         IN  IF SkipVendor(vendor_data.device_types)
             THEN ExportVendors(d, vendors, i + 1, run)
             ELSE ExportVendors(d, vendors, i + 1,
                    [files |-> (filename :> vendor_data) @@ run.files,
                     manifest_vendors |->
                        Append(run.manifest_vendors,
                               [name |-> vendor.name, file |-> filename]),
                     stats |->
                        [vendors_exported |-> run.stats.vendors_exported + 1,
                         devices_exported |-> run.stats.devices_exported
                                    + Len(vendor_data.device_types)]])

ExportRun(d) ==
    ExportVendors(d, Ordered(d.vendors, [v \in d.vendors |-> VendorRank(v)]),
                  1, NoExport)

\* LibraryVersion.version of the rows of the model, by primary key.
VersionString(pk) ==
    CASE pk = 1 -> "1.0.0"
      [] pk = 2 -> "1.1.0"
      [] pk = 3 -> "1.2.0"
      [] pk = 4 -> "2.0.0"
      [] OTHER -> "2.1.0"

\* A plausible slip: the defaults are written whatever version is current.
ManifestVersionDefaults(rows) == [version |-> "0.0.0", schema_version |-> 2]

\* version and schema_version of the row with is_current (the first of
\* them, were there several), or "0.0.0" and 2.
ManifestVersion(rows) ==
    IF \A r \in rows : ~r.is_current
    THEN [version |-> "0.0.0", schema_version |-> 2]
    ELSE LET current == CHOOSE r \in rows : r.is_current
         IN  [version |-> VersionString(current.pk),
              schema_version |-> current.schema_version]

\* export_to_yaml: the files under output_dir and the manifest beside it.
\* Vendors without devices are skipped; files of earlier exports stay.
export_to_yaml(d, disk) ==
    LET run == ExportRun(d)
    IN  [dir |-> TRUE, manifest_exists |-> TRUE,
         manifest |-> run.manifest_vendors,
         files |-> run.files @@ disk.files]

\* The manifest document of the run, the stats it returns and the names of
\* the files it wrote.
ExportResult(d, rows) ==
    LET run == ExportRun(d)
        head == ManifestVersion(rows)
    IN  [op |-> "export",
         manifest |-> [version |-> head.version,
                       schema_version |-> head.schema_version,
                       vendors |-> run.manifest_vendors],
         stats |-> run.stats,
         written |-> DOMAIN run.files]

NoOutput == [op |-> "none"]

(***************************************************************************)
(* Import runs that read the files of fs.                                  *)
(***************************************************************************)
Returned == imp.pc \in {"idle", "done", "raised"}

DiskImportStart(clear) ==
    ImportStart(fs.manifest_exists, fs.dir, clear, fs.manifest)

CurrentFile == imp.manifest[imp.vi].file

DiskImportVendor ==
    /\ imp.pc = "vendors"
    /\ IF CurrentFile \notin DOMAIN fs.files
       THEN ImportVendor(FALSE, FALSE, 0)
       ELSE IF "device_types" \notin DOMAIN fs.files[CurrentFile]
       THEN ImportVendor(TRUE, FALSE, 0)
       ELSE ImportVendor(TRUE, TRUE, Len(fs.files[CurrentFile].device_types))

DiskImportEntry ==
    /\ imp.pc = "devices"
    /\ ImportEntry(fs.files[CurrentFile].device_types[imp.di])

\* ExportView: export_to_yaml while no import runs; snap keeps the catalog
\* that was exported.
Export ==
    /\ Returned
    /\ fs' = export_to_yaml(db, fs)
    /\ snap' = db
    /\ out' = ExportResult(db, versions)
    /\ UNCHANGED <<versions, saves, db, imp>>

Technologies == {"modbus", "lorawan", "wmbus"}

\* DeviceTypeCreateView: the form adds a DeviceType row and no config row;
\* its validation refuses a (vendor, model_number) pair that exists.
DeviceTypeCreate ==
    /\ Returned
    /\ \E v \in db.vendors, m \in {"M1", "M2"}, technology \in Technologies :
        /\ \A r \in db.devices : DeviceKey(r) # <<v.slug, m>>
        /\ db' = [db EXCEPT !.devices = @ \cup
                    {[vendor |-> v.slug, model_number |-> m, name |-> "Manual",
                      device_type |-> "power_meter", technology |-> technology,
                      description |-> ""]}]
    /\ UNCHANGED <<versions, saves, fs, imp, snap, out>>

\* DeviceTypeDeleteView
DeviceTypeDelete ==
    /\ Returned
    /\ \E r \in db.devices : db' = DeleteDevices(db, {DeviceKey(r)})
    /\ UNCHANGED <<versions, saves, fs, imp, snap, out>>

(***************************************************************************)
(* The documents the import runs of the model read.                        *)
(***************************************************************************)
RegEnergy ==
    [tag |-> "map", field |-> [tag |-> "map", name |-> "energy", unit |-> "kWh"],
     address |-> 10, data_type |-> "uint32", scale |-> 10, offset |-> 0]
RegPower ==
    [tag |-> "map", field |-> [tag |-> "map", name |-> "power"], address |-> 5]
RegScalar == [tag |-> "str"]

\* A modbus device with two registers, the higher address first.
DevModbus ==
    [tag |-> "map", model_number |-> "M1", name |-> "Meter",
     device_type |-> "power_meter", description |-> "three phase",
     technology_config |->
        [tag |-> "map", technology |-> "modbus", function |-> "holding",
         byte_order |-> "big", register_definitions |-> <<RegEnergy, RegPower>>],
     control_config |-> [tag |-> "map", controllable |-> FALSE,
                         capabilities |-> EmptyMap],
     processor_config |-> [tag |-> "map", decoder_type |-> ""]]
\* The same model number as a modbus device without a register list.
DevModbusBare ==
    [tag |-> "map", model_number |-> "M1", name |-> "Meter 2",
     device_type |-> "power_meter", description |-> Null,
     technology_config |-> [tag |-> "map", technology |-> "modbus"]]
\* The same model number as a LoRaWAN device.
DevLora ==
    [tag |-> "map", model_number |-> "M1", name |-> "Sensor",
     device_type |-> "environment_sensor",
     technology_config |->
        [tag |-> "map", technology |-> "lorawan", device_class |-> "A",
         downlink_f_port |-> 0],
     control_config |-> [tag |-> "map", controllable |-> TRUE],
     processor_config |-> [tag |-> "map", decoder_type |-> "cayenne"]]
\* A wM-Bus device.
DevWmbus ==
    [tag |-> "map", model_number |-> "M2", name |-> "Water",
     device_type |-> "water_meter",
     technology_config |->
        [tag |-> "map", technology |-> "wmbus", manufacturer_code |-> "KAM",
         wmbus_device_type |-> 7, encryption_required |-> TRUE]]
\* A modbus device whose second register entry is a scalar.
DevBadRegister ==
    [tag |-> "map", model_number |-> "M2", name |-> "Heat",
     device_type |-> "heat_meter",
     technology_config |->
        [tag |-> "map", technology |-> "modbus",
         register_definitions |-> <<RegPower, RegScalar>>]]
\* An entry without model_number, one with name: null, one that is a string.
DevNoModel == [tag |-> "map", name |-> "Meter"]
DevNullName == [tag |-> "map", model_number |-> "M2", name |-> Null]
DevScalar == [tag |-> "str"]
\* An entry without technology_config and one that names another technology.
DevNoTech ==
    [tag |-> "map", model_number |-> "M2", name |-> "Gateway",
     device_type |-> "gateway"]
DevZigbee ==
    [tag |-> "map", model_number |-> "M2", name |-> "Plug",
     device_type |-> "gateway",
     technology_config |-> [tag |-> "map", technology |-> "zigbee"]]

VendorAcme == [name |-> "Acme", file |-> "acme.yaml"]
VendorBolt == [name |-> "Bolt", file |-> "bolt.yaml"]

\* The device entries a vendor file of the model may hold.
FilePool(file) ==
    IF file = "acme.yaml"
    THEN {DevModbus, DevModbusBare, DevLora, DevBadRegister,
          DevNoModel, DevNullName, DevScalar}
    ELSE {DevWmbus, DevNoModel, DevNoTech, DevZigbee}

SeqsUpTo(S, n) == UNION {[1..k -> S] : k \in 0..n}

Manifests == SeqsUpTo({VendorAcme, VendorBolt}, MaxVendorEntries)

(***************************************************************************)
(* Import runs one after the other, the files read as the run reaches      *)
(* them: each vendor file exists or not and holds any list of entries.     *)
(***************************************************************************)
AnyImportStart ==
    \E clear \in BOOLEAN :
        \/ \E manifest_exists \in BOOLEAN, devices_exists \in BOOLEAN :
                /\ ~(manifest_exists /\ devices_exists)
                /\ ImportStart(manifest_exists, devices_exists, clear, <<>>)
        \/ \E manifest \in Manifests : ImportStart(TRUE, TRUE, clear, manifest)

\* The vendor file is missing, or holds no device_types key, or a list of
\* n entries.
AnyImportVendor ==
    \/ ImportVendor(FALSE, FALSE, 0)
    \/ ImportVendor(TRUE, FALSE, 0)
    \/ \E n \in 0..MaxDeviceEntries : ImportVendor(TRUE, TRUE, n)

AnyImportEntry ==
    /\ imp.pc = "devices"
    /\ \E data \in FilePool(imp.manifest[imp.vi].file) : ImportEntry(data)

NoDisk ==
    [dir |-> FALSE, manifest_exists |-> FALSE, manifest |-> <<>>,
     files |-> <<>>]

InitImport ==
    /\ InitVersions
    /\ db = EmptyCatalog
    /\ fs = NoDisk
    /\ imp = IdleImport
    /\ snap = EmptyCatalog
    /\ out = NoOutput

NextImport ==
    \/ AnyImportStart
    \/ ImportClearDevices
    \/ ImportClearVendors
    \/ AnyImportVendor
    \/ AnyImportEntry

SpecImport == InitImport /\ [][NextImport]_vars


(***************************************************************************)
(* LibraryVersion saves one at a time, and two saves at once.              *)
(***************************************************************************)
InitVersion ==
    /\ InitVersions
    /\ db = EmptyCatalog
    /\ fs = NoDisk
    /\ imp = IdleImport
    /\ snap = EmptyCatalog
    /\ out = NoOutput

NextVersion ==
    \/ VersionCreate
    \/ VersionSave
    \/ VersionDelete

SpecVersion == InitVersion /\ [][NextVersion]_vars

NextVersionRace ==
    \E p \in Procs :
        \/ SaveBegin(p)
        \/ SaveUnset(p)
        \/ SaveWrite(p)

SpecVersionRace == InitVersion /\ [][NextVersionRace]_vars

\* C1: after any sequence of LibraryVersion saves run one at a time, at most
\* one row has is_current = true.
C1_AtMostOneCurrent == Cardinality(CurrentVersions) <= 1

\* A row is current beside a row that a save has unset or left unset.
C1_Witness ==
    /\ Cardinality(CurrentVersions) = 1
    /\ Cardinality(versions) >= 3

\* C2: when two saves with is_current = true for two different rows
\* interleave, no reachable state has two rows with is_current = true.
C2_NoTwoCurrentInterleaved ==
    \A r1 \in versions, r2 \in versions :
        r1.is_current /\ r2.is_current => r1.pk = r2.pk

(***************************************************************************)
(* Properties of the import runs.                                          *)
(***************************************************************************)
AllEntries == FilePool("acme.yaml") \cup FilePool("bolt.yaml")

CurrentSlug == Slugify(imp.manifest[imp.vi].name)

\* The step imported data without an exception.
Imported(data) ==
    /\ ImportEntry(data)
    /\ imp'.pc # "raised"
    /\ Len(imp'.stats.errors) = Len(imp.stats.errors)

DevicePairsUnique ==
    \A r1 \in db.devices, r2 \in db.devices :
        DeviceKey(r1) = DeviceKey(r2) => r1 = r2

\* An entry whose pair exists and whose upsert is counted leaves the number
\* of rows as it was and the row of the pair with the entry's four fields.
UpsertOverwrites(data) ==
    (/\ ImportEntry(data)
     /\ imp'.stats.devices_updated = imp.stats.devices_updated + 1)
    => /\ Cardinality(db'.devices) = Cardinality(db.devices)
       /\ \E r \in db'.devices :
            /\ DeviceKey(r) = <<CurrentSlug, data.model_number>>
            /\ r.name = Get(data, "name", "")
            /\ r.device_type = Get(data, "device_type", "")
            /\ r.technology = Get(Get(data, "technology_config", EmptyMap),
                                   "technology", "")
            /\ r.description = OrEmpty(Get(data, "description", ""))

\* C4: after any sequence of imports no two DeviceType rows share the same
\* (vendor, model_number) pair, and importing an entry whose pair exists
\* overwrites that row's name, device_type, technology and description
\* instead of adding a row.
C4_UpsertNotDuplicate ==
    /\ []DevicePairsUnique
    /\ [][\A data \in AllEntries : UpsertOverwrites(data)]_vars

\* A run has updated the row of a pair that existed.
C4_Witness ==
    /\ imp.stats.devices_updated >= 1
    /\ imp.stats.devices_created >= 1
    /\ Cardinality(db.devices) = 1

\* The values of a register row, and the values the entry of a
\* register_definitions list asks for.
RegisterValues(r) ==
    <<r.address, r.field_name, r.field_unit, r.data_type, r.scale, r.offset>>

ExpectedValues(reg) ==
    <<IF "address" \in DOMAIN reg THEN reg.address ELSE 0,
      IF "name" \in DOMAIN reg.field THEN reg.field.name ELSE "",
      IF "unit" \in DOMAIN reg.field THEN reg.field.unit ELSE "",
      IF "data_type" \in DOMAIN reg THEN reg.data_type ELSE "uint16",
      IF "scale" \in DOMAIN reg THEN reg.scale ELSE 1,
      IF "offset" \in DOMAIN reg THEN reg.offset ELSE 0>>

\* The rows of dev are the list's entries, as multisets.
SameRegisters(rows, list) ==
    \A v \in {RegisterValues(r) : r \in rows}
            \cup {ExpectedValues(list[i]) : i \in 1..Len(list)} :
        Cardinality({r \in rows : RegisterValues(r) = v})
            = Cardinality({i \in 1..Len(list) : ExpectedValues(list[i]) = v})

IsModbusEntry(data) ==
    /\ IsMap(data)
    /\ "technology_config" \in DOMAIN data
    /\ Get(data.technology_config, "technology", "") = "modbus"

\* C6: after a modbus device entry is imported without error, the device's
\* RegisterDefinition rows are exactly the entries of its
\* register_definitions list, also when the list is empty or the key is
\* missing: no register from before the import is left.
C6_RegistersReplaced ==
    [][\A data \in AllEntries :
        (IsModbusEntry(data) /\ Imported(data))
        => SameRegisters(
              {r \in db'.registers :
                  r.device = <<CurrentSlug, data.model_number>>},
              Get(data.technology_config, "register_definitions", <<>>))]_vars

\* A modbus device that held registers was updated and is left without any.
C6_Witness ==
    /\ imp.hadRegs
    /\ imp.pc = "done"
    /\ imp.stats.devices_updated >= 1
    /\ imp.stats.errors = <<>>
    /\ \E m \in db.modbus :
        /\ m.device = <<"acme", "M1">>
        /\ m.function = ""
        /\ \A r \in db.registers : r.device # m.device
        /\ \E dv \in db.devices : DeviceKey(dv) = m.device /\ dv.name = "Meter 2"

ManifestSlugs == {Slugify(imp.manifest[i].name) : i \in 1..Len(imp.manifest)}

\* C7: in an import run with clear = true whose path preconditions hold, a
\* state with zero Vendor and zero DeviceType rows precedes every creation
\* of the run, and afterwards every Vendor and DeviceType row comes from the
\* manifest: the rows are as many as the run created and belong to the
\* manifest's vendors.
C7_ClearBeforeCreate ==
    (imp.clear /\ imp.exc # "FileNotFoundError")
    => /\ (imp.stats.vendors_created + imp.stats.devices_created > 0
             => imp.sawEmpty)
       /\ (imp.pc \in {"vendors", "devices", "done", "raised"}
             => /\ \A v \in db.vendors : v.slug \in ManifestSlugs
                /\ \A r \in db.devices : r.vendor \in ManifestSlugs
                /\ Cardinality(db.vendors) = imp.stats.vendors_created
                /\ Cardinality(db.devices) = imp.stats.devices_created)

\* A clearing run that began on a catalog with rows has created rows.
C7_Witness ==
    /\ imp.clear
    /\ imp.dirty
    /\ imp.pc = "done"
    /\ imp.stats.devices_created >= 1

\* C8: if the manifest file or the devices directory does not exist,
\* import_from_yaml fails with a not-found error and the catalog is as
\* before the call, also when clear = true.
C8_MissingPathNoMutation ==
    [][\A me \in BOOLEAN, de \in BOOLEAN, clear \in BOOLEAN :
        (~(me /\ de) /\ ImportStart(me, de, clear, <<>>))
        => /\ imp'.pc = "raised"
           /\ imp'.exc = "FileNotFoundError"
           /\ db' = db]_vars

\* The call failed on a missing path with clear = true and rows in place.
C8_Witness ==
    /\ imp.pc = "raised"
    /\ imp.exc = "FileNotFoundError"
    /\ imp.clear
    /\ db.devices # {}

\* C9: for a manifest vendor entry whose file does not exist, the import
\* records one error string, skips that vendor (no row created or changed,
\* neither vendor counter incremented) and still processes every later
\* vendor entry.
C9_MissingFileSkipped ==
    /\ [][(imp.pc = "vendors" /\ ImportVendor(FALSE, FALSE, 0))
            => /\ imp'.stats.errors =
                    Append(imp.stats.errors,
                           FileError(imp.manifest[imp.vi].file))
               /\ db' = db
               /\ imp'.stats.vendors_created = imp.stats.vendors_created
               /\ imp'.stats.vendors_updated = imp.stats.vendors_updated
               /\ IF imp.vi < Len(imp.manifest)
                  THEN imp'.pc = "vendors" /\ imp'.vi = imp.vi + 1
                  ELSE imp'.pc = "done"]_vars
    /\ [](imp.pc = "done" => imp.vi = Len(imp.manifest))

\* The first vendor's file was missing and the second vendor was imported.
C9_Witness ==
    /\ imp.pc = "done"
    /\ Len(imp.stats.errors) = 1
    /\ imp.stats.errors[1].kind = "file"
    /\ imp.stats.errors[1].file = "acme.yaml"
    /\ imp.stats.vendors_created = 1
    /\ \E v \in db.vendors : v.slug = "bolt"

\* C10: once the path preconditions hold, import_from_yaml never raises
\* because of a device entry.
C10_NeverRaisesForEntry ==
    imp.pc = "raised" => imp.exc = "FileNotFoundError"


(***************************************************************************)
(* Export and import again: the catalog is filled from shipped files and   *)
(* through the device form, exported, and imported, always with            *)
(* clear = true.                                                           *)
(***************************************************************************)
FileDoc(list) == [tag |-> "map", device_types |-> list]

MakeDisk(manifest, files) ==
    [dir |-> TRUE, manifest_exists |-> TRUE, manifest |-> manifest,
     files |-> files]

ShippedDisks ==
    {MakeDisk(<<VendorAcme>>, [f \in {"acme.yaml"} |-> FileDoc(list)])
        : list \in SeqsUpTo({DevModbus, DevLora, DevWmbus},
                            MaxDeviceEntries - 1)}

InitRoundTrip ==
    /\ InitVersions
    /\ db = EmptyCatalog
    /\ fs \in ShippedDisks
    /\ imp = IdleImport
    /\ snap = EmptyCatalog
    /\ out = NoOutput

NextRoundTrip ==
    \/ DiskImportStart(TRUE)
    \/ ImportClearDevices
    \/ ImportClearVendors
    \/ DiskImportVendor
    \/ DiskImportEntry
    \/ DeviceTypeCreate
    \/ DeviceTypeDelete
    \/ Export

SpecRoundTrip == InitRoundTrip /\ [][NextRoundTrip]_vars

\* What the round trip is to keep: the DeviceType rows and, per device, the
\* technology config rows, a device named by its vendor's name and its
\* model number, the registers of a ModbusConfig as a multiset of values.
DeviceName(d, dev) == <<VendorName(d, dev[1]), dev[2]>>

DeviceTypeRows(d) ==
    {[device |-> DeviceName(d, DeviceKey(r)), name |-> r.name,
      device_type |-> r.device_type, technology |-> r.technology,
      description |-> r.description] : r \in d.devices}

RegisterBag(d, dev) ==
    LET rows == {r \in d.registers : r.device = dev}
    IN  [v \in {RegisterValues(r) : r \in rows} |->
            Cardinality({r \in rows : RegisterValues(r) = v})]

ModbusRows(d) ==
    {[device |-> DeviceName(d, m.device), function |-> m.function,
      byte_order |-> m.byte_order, word_order |-> m.word_order,
      registers |-> RegisterBag(d, m.device)] : m \in d.modbus}

LorawanRows(d) ==
    {[c EXCEPT !.device = DeviceName(d, c.device)] : c \in d.lorawan}

WmbusRows(d) ==
    {[c EXCEPT !.device = DeviceName(d, c.device)] : c \in d.wmbus}

SameCatalog(a, b) ==
    /\ DeviceTypeRows(a) = DeviceTypeRows(b)
    /\ ModbusRows(a) = ModbusRows(b)
    /\ LorawanRows(a) = LorawanRows(b)
    /\ WmbusRows(a) = WmbusRows(b)

\* C3: exporting a catalog and importing the written files into an empty
\* catalog gives the DeviceType rows and the per-device ModbusConfig (with
\* registers), LoRaWANConfig and WMBusConfig rows of the exported catalog.
C3_RoundTrip ==
    [][(/\ imp.pc # "done"
        /\ imp'.pc = "done"
        /\ imp'.clear
        /\ imp'.sawEmpty
        /\ fs = export_to_yaml(snap, fs))
       => SameCatalog(db', snap)]_vars

(***************************************************************************)
(* Importing the same files again and again, clear = false.                *)
(***************************************************************************)
FileChoices(file) ==
    {[exists |-> FALSE, doc |-> EmptyMap], [exists |-> TRUE, doc |-> EmptyMap]}
    \cup {[exists |-> TRUE, doc |-> FileDoc(l)]
            : l \in SeqsUpTo(FilePool(file), MaxDeviceEntries)}

Disks ==
    {MakeDisk(m, [f \in {g \in {"acme.yaml", "bolt.yaml"} :
                            IF g = "acme.yaml" THEN a.exists ELSE b.exists} |->
                    IF f = "acme.yaml" THEN a.doc ELSE b.doc])
        : m \in Manifests \ {<<>>},
          a \in FileChoices("acme.yaml"), b \in FileChoices("bolt.yaml")}

\* A call of import_from_yaml on the files of fs; snap keeps the catalog the
\* call began with and imp.prev how the call before it ended.
ReimportStart ==
    /\ imp.pc \in {"idle", "done", "raised"}
    /\ imp' = [ImportCall(fs.manifest_exists, fs.dir, FALSE, fs.manifest)
                 EXCEPT !.prev = imp.pc]
    /\ snap' = db
    /\ UNCHANGED <<versions, saves, db, fs, out>>

InitReimport ==
    /\ InitVersions
    /\ db = EmptyCatalog
    /\ fs \in Disks
    /\ imp = IdleImport
    /\ snap = EmptyCatalog
    /\ out = NoOutput

NextReimport ==
    \/ ReimportStart
    \/ DiskImportVendor
    \/ DiskImportEntry

SpecReimport == InitReimport /\ [][NextReimport]_vars

\* The device entries the run reads: those of each manifest entry's file.
EntriesOf(i) ==
    LET f == fs.manifest[i].file
    IN  IF f \in DOMAIN fs.files /\ "device_types" \in DOMAIN fs.files[f]
        THEN fs.files[f].device_types ELSE <<>>

RECURSIVE SumTo(_, _)
SumTo(count, i) == IF i = 0 THEN 0 ELSE count[i] + SumTo(count, i - 1)

EntryCount ==
    SumTo([i \in 1..Len(fs.manifest) |-> Len(EntriesOf(i))], Len(fs.manifest))

\* The entry gets as far as a DeviceType row: it is a mapping with a
\* model_number and no null among the row's required values.
Upsertable(data) ==
    /\ IsMap(data)
    /\ "model_number" \in DOMAIN data
    /\ data.model_number # Null
    /\ ("name" \in DOMAIN data => data.name # Null)
    /\ ("device_type" \in DOMAIN data => data.device_type # Null)
    /\ ("technology_config" \in DOMAIN data
          => /\ IsMap(data.technology_config)
             /\ ("technology" \in DOMAIN data.technology_config
                   => data.technology_config.technology # Null))

UpsertedCount ==
    SumTo([i \in 1..Len(fs.manifest) |->
              Cardinality({k \in 1..Len(EntriesOf(i)) :
                              Upsertable(EntriesOf(i)[k])})],
          Len(fs.manifest))

\* The call follows a call on the same files.
SecondRun == imp.prev \in {"done", "raised"}

\* C5 as stated: the second of two imports of the same files returns
\* devices_created = 0, vendors_created = 0 and devices_updated = N, the
\* number of device entries in the files, and leaves the catalog as the
\* first import left it.
C5_SecondRunUpdatesEveryEntry ==
    (imp.pc = "done" /\ SecondRun)
    => /\ imp.stats.devices_created = 0
       /\ imp.stats.vendors_created = 0
       /\ imp.stats.devices_updated = EntryCount
       /\ db = snap

\* C5 amended: the second of two imports of the same files creates no
\* vendor and no device and leaves the catalog as the first import left it,
\* and when it returns, devices_updated is the number of device entries
\* whose DeviceType upsert succeeds.
C5_SecondRunUpdatesUpserted ==
    (imp.pc \in {"done", "raised"} /\ SecondRun)
    => /\ imp.stats.devices_created = 0
       /\ imp.stats.vendors_created = 0
       /\ db = snap
       /\ (imp.pc = "done" => imp.stats.devices_updated = UpsertedCount)

\* A second run over a file with an entry that fails and one that does not.
C5_Witness ==
    /\ imp.pc = "done"
    /\ SecondRun
    /\ imp.stats.devices_updated >= 1
    /\ imp.stats.devices_updated < EntryCount
    /\ db.registers # {}


(***************************************************************************)
(* Properties of the configs an imported entry writes.                     *)
(***************************************************************************)
RowsOf(table, dev) == {r \in table : r.device = dev}

\* The entry's control_config has a true controllable or capabilities with a
\* key; its processor_config has a decoder_type that is not empty.
ControlMeaningful(data) ==
    /\ "control_config" \in DOMAIN data
    /\ \/ /\ "controllable" \in DOMAIN data.control_config
          /\ data.control_config.controllable
       \/ /\ "capabilities" \in DOMAIN data.control_config
          /\ DOMAIN data.control_config.capabilities # {"tag"}

ProcessorMeaningful(data) ==
    /\ "processor_config" \in DOMAIN data
    /\ "decoder_type" \in DOMAIN data.processor_config
    /\ data.processor_config.decoder_type \notin {"", Null}

ControlProcessorFrame(data) ==
    (/\ ImportEntry(data)
     /\ IsMap(data)
     /\ "model_number" \in DOMAIN data)
    => LET dev == <<CurrentSlug, data.model_number>>
       IN  /\ {r \in db'.control : r.device # dev}
                = {r \in db.control : r.device # dev}
           /\ {r \in db'.processor : r.device # dev}
                = {r \in db.processor : r.device # dev}
           /\ ~ControlMeaningful(data)
                => RowsOf(db'.control, dev) = RowsOf(db.control, dev)
           /\ ~ProcessorMeaningful(data)
                => RowsOf(db'.processor, dev) = RowsOf(db.processor, dev)
           /\ (ControlMeaningful(data) /\ Imported(data))
                => RowsOf(db'.control, dev) =
                     {[device |-> dev,
                       controllable |->
                          IF "controllable" \in DOMAIN data.control_config
                          THEN data.control_config.controllable ELSE FALSE,
                       capabilities |->
                          IF "capabilities" \in DOMAIN data.control_config
                          THEN data.control_config.capabilities ELSE EmptyMap]}
           /\ (ProcessorMeaningful(data) /\ Imported(data))
                => RowsOf(db'.processor, dev) =
                     {[device |-> dev,
                       decoder_type |-> data.processor_config.decoder_type]}

\* C11: importing a device entry writes the device's ControlConfig only if
\* control_config has a true controllable or non-empty capabilities and its
\* ProcessorConfig only if processor_config has a non-empty decoder_type;
\* otherwise a row that existed is left as it was.
C11_ConfigOnlyIfMeaningful ==
    [][\A data \in AllEntries : ControlProcessorFrame(data)]_vars

\* A device was imported with a decoder and a true controllable and then
\* again by an entry whose blocks carry nothing: both rows are still there.
C11_Witness ==
    /\ imp.pc = "done"
    /\ imp.stats.errors = <<>>
    /\ \E r \in db.devices :
        /\ DeviceKey(r) = <<"acme", "M1">>
        /\ r.name = "Meter"
        /\ \E c \in db.control : c.device = DeviceKey(r) /\ c.controllable
        /\ \E c \in db.processor :
              c.device = DeviceKey(r) /\ c.decoder_type = "cayenne"

HasConfig(d, dev, technology) ==
    CASE technology = "modbus" -> RowsOf(d.modbus, dev) # {}
      [] technology = "lorawan" -> RowsOf(d.lorawan, dev) # {}
      [] technology = "wmbus" -> RowsOf(d.wmbus, dev) # {}
      [] OTHER -> FALSE

OneTechConfig(data) ==
    Imported(data)
    => LET dev == <<CurrentSlug, data.model_number>>
           row == CHOOSE r \in db'.devices : DeviceKey(r) = dev
       IN  /\ HasConfig(db', dev, row.technology)
           /\ row.technology # "modbus"
                => db'.modbus = db.modbus /\ db'.registers = db.registers
           /\ row.technology # "lorawan" => db'.lorawan = db.lorawan
           /\ row.technology # "wmbus" => db'.wmbus = db.wmbus

\* C12: every device entry imported without error writes the
\* technology-config row of the kind its technology names and no row of the
\* other two kinds, and afterwards the device has the config row that
\* matches its technology field.
C12_OneTechConfig ==
    [][\A data \in AllEntries : OneTechConfig(data)]_vars

\* C13: after any sequence of imports every DeviceType row has a technology
\* in {modbus, lorawan, wmbus}.
C13_TechnologyInEnum ==
    \A r \in db.devices : r.technology \in Technologies


(***************************************************************************)
(* Exports: a catalog of two vendors filled from shipped files, devices    *)
(* deleted through the device view, versions released, and export runs.    *)
(***************************************************************************)
ExportDisks ==
    {MakeDisk(<<VendorAcme, VendorBolt>>,
              ("acme.yaml" :> FileDoc(acme)) @@ ("bolt.yaml" :> FileDoc(<<DevWmbus>>)))
        : acme \in {<<DevModbus>>, <<DevLora, DevWmbus>>}}

InitExport ==
    /\ InitVersions
    /\ db = EmptyCatalog
    /\ fs \in ExportDisks
    /\ imp = IdleImport
    /\ snap = EmptyCatalog
    /\ out = NoOutput

\* The versions released while the exports of the model run.
MaxReleases == 2

Release ==
    /\ Cardinality(versions) < MaxReleases
    /\ VersionCreate

NextExport ==
    \/ DiskImportStart(FALSE)
    \/ DiskImportVendor
    \/ DiskImportEntry
    \/ DeviceTypeDelete
    \/ Release
    \/ Export

SpecExport == InitExport /\ [][NextExport]_vars

OwnsDevice(d, v) == \E r \in d.devices : r.vendor = v.slug

Listed(list, v) ==
    \E i \in 1..Len(list) : list[i] = [name |-> v.name, file |-> FileName(v.slug)]

\* C14: an export run writes the file <slug>.yaml and a manifest vendors
\* entry for a vendor if and only if the vendor owns at least one
\* DeviceType, and vendors_exported counts exactly the vendors that own one.
C14_FileIffVendorHasDevices ==
    [][Export =>
        /\ \A v \in db.vendors :
            /\ FileName(v.slug) \in out'.written <=> OwnsDevice(db, v)
            /\ Listed(out'.manifest.vendors, v) <=> OwnsDevice(db, v)
            /\ Listed(fs'.manifest, v) <=> OwnsDevice(db, v)
        /\ out'.stats.vendors_exported
             = Cardinality({v \in db.vendors : OwnsDevice(db, v)})]_vars

\* An export of a catalog in which one vendor owns devices and another
\* owns none has run and has written one file.
C14_Witness ==
    /\ out.op = "export"
    /\ \E v, w \in snap.vendors : OwnsDevice(snap, v) /\ ~OwnsDevice(snap, w)
    /\ Cardinality(out.written) = 1
    /\ out.stats.vendors_exported = 1

RECURSIVE DocumentsIn(_, _)
DocumentsIn(files, names) ==
    IF names = {} THEN 0
    ELSE LET f == CHOOSE x \in names : TRUE
         IN  Len(files[f].device_types) + DocumentsIn(files, names \ {f})

\* C15: every export run writes the manifest, also for an empty catalog;
\* version and schema_version are those of the current LibraryVersion, or
\* "0.0.0" and 2 when none is current; the vendors list has one {name, file}
\* entry per vendor file written, in the order of the vendors' names;
\* vendors_exported is its length and devices_exported the number of device
\* documents in the files written.
C15_ManifestAlwaysWritten ==
    [][Export =>
        LET list == out'.manifest.vendors
        IN  /\ fs'.manifest_exists
            /\ fs'.manifest = list
            /\ IF CurrentVersions = {}
               THEN out'.manifest.version = "0.0.0"
                    /\ out'.manifest.schema_version = 2
               ELSE \E r \in CurrentVersions :
                        /\ out'.manifest.version = VersionString(r.pk)
                        /\ out'.manifest.schema_version = r.schema_version
            /\ {list[i].file : i \in 1..Len(list)} = out'.written
            /\ Len(list) = Cardinality(out'.written)
            /\ \A i \in 1..Len(list) :
                \E v \in db.vendors :
                    list[i] = [name |-> v.name, file |-> FileName(v.slug)]
            /\ \A i, j \in 1..Len(list) :
                i < j => NameRank(list[i].name) <= NameRank(list[j].name)
            /\ out'.stats.vendors_exported = Len(list)
            /\ out'.stats.devices_exported = DocumentsIn(fs'.files, out'.written)
            /\ out'.stats.devices_exported = Cardinality(db.devices)]_vars

\* An export with a current version, two vendor files and three device
\* documents has run.
C15_Witness ==
    /\ out.op = "export"
    /\ out.manifest.version = "1.1.0"
    /\ out.manifest.schema_version = 1
    /\ Len(out.manifest.vendors) = 2
    /\ out.stats.devices_exported = 3
    /\ fs.manifest_exists


(***************************************************************************)
(* The sync API's device detail (api/serializers.py).                      *)
(***************************************************************************)
\* RegisterDefinitionSerializer: field, scale, offset, address, data_type.
RegisterDefinitionSerializer(obj) ==
    [tag |-> "map",
     field |-> [tag |-> "map", name |-> obj.field_name, unit |-> obj.field_unit],
     scale |-> obj.scale, offset |-> obj.offset,
     address |-> obj.address, data_type |-> obj.data_type]

RepresentModbus(d, dev) ==
    IF RowsOf(d.modbus, dev) = {} THEN <<>>
    ELSE LET modbus == CHOOSE m \in RowsOf(d.modbus, dev) : TRUE
             all == Ordered(RowsOf(d.registers, dev),
                            [r \in d.registers |-> RegisterRank(r)])
             regs == [i \in 1..Len(all) |-> RegisterDefinitionSerializer(all[i])]
             f1 == IF modbus.function # ""
                   THEN [function |-> modbus.function] ELSE <<>>
             f2 == IF modbus.byte_order # ""
                   THEN [byte_order |-> modbus.byte_order] ELSE <<>>
             f3 == IF modbus.word_order # ""
                   THEN [word_order |-> modbus.word_order] ELSE <<>>
             f4 == IF Len(regs) > 0
                   THEN [register_definitions |-> regs] ELSE <<>>
         IN  f1 @@ f2 @@ f3 @@ f4

\* A plausible slip: "if lorawan.downlink_f_port:" drops a port of 0.
RepresentLorawanPortTruthy(d, dev) ==
    IF RowsOf(d.lorawan, dev) = {} THEN <<>>
    ELSE LET lorawan == CHOOSE c \in RowsOf(d.lorawan, dev) : TRUE
         IN  (IF lorawan.device_class # ""
              THEN [device_class |-> lorawan.device_class] ELSE <<>>)
             @@ (IF lorawan.downlink_f_port \notin {NullInt, 0}
                 THEN [downlink_f_port |-> lorawan.downlink_f_port] ELSE <<>>)

RepresentLorawan(d, dev) ==
    IF RowsOf(d.lorawan, dev) = {} THEN <<>>
    ELSE LET lorawan == CHOOSE c \in RowsOf(d.lorawan, dev) : TRUE
         IN  (IF lorawan.device_class # ""
              THEN [device_class |-> lorawan.device_class] ELSE <<>>)
             @@ (IF lorawan.downlink_f_port # NullInt
                 THEN [downlink_f_port |-> lorawan.downlink_f_port] ELSE <<>>)

RepresentWmbus(d, dev) ==
    IF RowsOf(d.wmbus, dev) = {} THEN <<>>
    ELSE LET wmbus == CHOOSE c \in RowsOf(d.wmbus, dev) : TRUE
         IN  (IF wmbus.shared_encryption_key # ""
              THEN [shared_encryption_key |-> wmbus.shared_encryption_key]
              ELSE <<>>)
             @@ [manufacturer_code |-> wmbus.manufacturer_code,
                 wmbus_device_type |-> wmbus.wmbus_device_type,
                 data_record_mapping |-> wmbus.data_record_mapping,
                 encryption_required |-> wmbus.encryption_required]

\* DeviceTechnologyConfigSerializer.to_representation
to_representation(d, device) ==
    LET data == [tag |-> "map", technology |-> device.technology]
    IN  IF device.technology = "modbus"
        THEN data @@ RepresentModbus(d, DeviceKey(device))
        ELSE IF device.technology = "lorawan"
        THEN data @@ RepresentLorawan(d, DeviceKey(device))
        ELSE IF device.technology = "wmbus"
        THEN data @@ RepresentWmbus(d, DeviceKey(device))
        ELSE data

\* ControlConfigSerializer(obj.control_config).data, or {} without a row.
get_control_config(d, obj) ==
    LET rows == RowsOf(d.control, DeviceKey(obj))
    IN  IF rows = {} THEN EmptyMap
        ELSE LET row == CHOOSE c \in rows : TRUE
             IN  [tag |-> "map", controllable |-> row.controllable,
                  capabilities |-> row.capabilities]

\* ProcessorConfigSerializer(obj.processor_config).data, or {} without a row.
get_processor_config(d, obj) ==
    LET rows == RowsOf(d.processor, DeviceKey(obj))
    IN  IF rows = {} THEN EmptyMap
        ELSE [tag |-> "map",
              decoder_type |-> (CHOOSE c \in rows : TRUE).decoder_type]

\* DeviceTypeDetailSerializer without the id.
DeviceTypeDetailSerializer(d, obj) ==
    [vendor_name |-> VendorName(d, obj.vendor),
     model_number |-> obj.model_number,
     name |-> obj.name,
     device_type |-> obj.device_type,
     description |-> obj.description,
     technology_config |-> to_representation(d, obj),
     control_config |-> get_control_config(d, obj),
     processor_config |-> get_processor_config(d, obj)]

\* SyncDeviceViewSet.retrieve: the detail of one device.
DeviceDetail ==
    /\ Returned
    /\ \E obj \in db.devices :
        out' = [op |-> "detail", device |-> DeviceKey(obj),
                body |-> DeviceTypeDetailSerializer(db, obj)]
    /\ UNCHANGED <<versions, saves, db, fs, imp, snap>>

\* DeviceTypeUpdateView: the form changes the technology of a device; the
\* config rows stay as they are.
DeviceTypeUpdate ==
    /\ Returned
    /\ \E obj \in db.devices, technology \in Technologies :
        /\ technology # obj.technology
        /\ db' = [db EXCEPT !.devices = (@ \ {obj}) \cup
                    {[obj EXCEPT !.technology = technology]}]
    /\ UNCHANGED <<versions, saves, fs, imp, snap, out>>

\* ProcessorConfigAdmin: the add or change form of a device's
\* ProcessorConfig; decoder_type may be left blank.
ProcessorConfigSave ==
    /\ Returned
    /\ \E obj \in db.devices, decoder_type \in {"", "cayenne"} :
        db' = [db EXCEPT !.processor = (@ \ RowsOf(@, DeviceKey(obj))) \cup
                {[device |-> DeviceKey(obj), decoder_type |-> decoder_type]}]
    /\ UNCHANGED <<versions, saves, fs, imp, snap, out>>

ApiDisks ==
    {MakeDisk(<<VendorAcme>>, [f \in {"acme.yaml"} |-> FileDoc(list)])
        : list \in {<<DevModbus>>, <<DevLora, DevWmbus>>,
                     <<DevModbus, DevLora>>}}

InitApi ==
    /\ InitVersions
    /\ db = EmptyCatalog
    /\ fs \in ApiDisks
    /\ imp = IdleImport
    /\ snap = EmptyCatalog
    /\ out = NoOutput

NextApi ==
    \/ DiskImportStart(FALSE)
    \/ DiskImportVendor
    \/ DiskImportEntry
    \/ DeviceTypeUpdate
    \/ ProcessorConfigSave
    \/ DeviceDetail

SpecApi == InitApi /\ [][NextApi]_vars

\* The same catalogs, exported and imported again.
NextTechExport ==
    \/ DiskImportStart(FALSE)
    \/ DiskImportVendor
    \/ DiskImportEntry
    \/ DeviceTypeUpdate
    \/ Export

SpecTechExport == InitApi /\ [][NextTechExport]_vars


\* The keys of a mapping of a document.
Keys(node) == DOMAIN node \ {"tag"}

\* The document export wrote for the device.
WrittenDocument(disk, device) ==
    LET list == disk.files[FileName(device.vendor)].device_types
    IN  list[CHOOSE i \in 1..Len(list) :
                list[i].model_number = device.model_number]

RegisterValue(r) ==
    <<r.field_name, r.field_unit, r.scale, r.offset, r.address, r.data_type>>

DocumentValue(e) ==
    <<e.field.name, e.field.unit, e.scale, e.offset, e.address, e.data_type>>

ModbusShape(d, dev, cfg) ==
    LET m == CHOOSE x \in RowsOf(d.modbus, dev) : TRUE
        regs == RowsOf(d.registers, dev)
    IN  /\ "function" \in Keys(cfg) <=> m.function # ""
        /\ "function" \in Keys(cfg) => cfg.function = m.function
        /\ "byte_order" \in Keys(cfg) <=> m.byte_order # ""
        /\ "byte_order" \in Keys(cfg) => cfg.byte_order = m.byte_order
        /\ "word_order" \in Keys(cfg) <=> m.word_order # ""
        /\ "word_order" \in Keys(cfg) => cfg.word_order = m.word_order
        /\ "register_definitions" \in Keys(cfg) <=> regs # {}
        /\ "register_definitions" \in Keys(cfg) =>
            LET list == cfg.register_definitions
            IN  /\ Len(list) = Cardinality(regs)
                /\ {DocumentValue(list[i]) : i \in 1..Len(list)}
                     = {RegisterValue(r) : r \in regs}
                /\ \A i \in 1..Len(list) :
                    Keys(list[i]) = {"field", "scale", "offset", "address",
                                     "data_type"}
                    /\ Keys(list[i].field) = {"name", "unit"}
                /\ \A i, j \in 1..Len(list) :
                    i < j => list[i].address <= list[j].address
        /\ Keys(cfg) \subseteq {"technology", "function", "byte_order",
                                "word_order", "register_definitions"}

LorawanShape(d, dev, cfg) ==
    LET c == CHOOSE x \in RowsOf(d.lorawan, dev) : TRUE
    IN  /\ "device_class" \in Keys(cfg) <=> c.device_class # ""
        /\ "device_class" \in Keys(cfg) => cfg.device_class = c.device_class
        /\ "downlink_f_port" \in Keys(cfg) <=> c.downlink_f_port # NullInt
        /\ "downlink_f_port" \in Keys(cfg) =>
                cfg.downlink_f_port = c.downlink_f_port
        /\ Keys(cfg) \subseteq {"technology", "device_class", "downlink_f_port"}

WmbusShape(d, dev, cfg) ==
    LET c == CHOOSE x \in RowsOf(d.wmbus, dev) : TRUE
        always == {"technology", "manufacturer_code", "wmbus_device_type",
                   "data_record_mapping", "encryption_required"}
    IN  /\ always \subseteq Keys(cfg)
        /\ cfg.manufacturer_code = c.manufacturer_code
        /\ cfg.wmbus_device_type = c.wmbus_device_type
        /\ cfg.data_record_mapping = c.data_record_mapping
        /\ cfg.encryption_required = c.encryption_required
        /\ "shared_encryption_key" \in Keys(cfg) <=> c.shared_encryption_key # ""
        /\ "shared_encryption_key" \in Keys(cfg) =>
                cfg.shared_encryption_key = c.shared_encryption_key
        /\ Keys(cfg) \subseteq always \cup {"shared_encryption_key"}

SelectedRows(d, device) ==
    CASE device.technology = "modbus" -> RowsOf(d.modbus, DeviceKey(device))
      [] device.technology = "lorawan" -> RowsOf(d.lorawan, DeviceKey(device))
      [] device.technology = "wmbus" -> RowsOf(d.wmbus, DeviceKey(device))
      [] OTHER -> {}

TechConfigShape(d, device, cfg) ==
    /\ "technology" \in Keys(cfg)
    /\ cfg.technology = device.technology
    /\ IF SelectedRows(d, device) = {} THEN Keys(cfg) = {"technology"}
       ELSE CASE device.technology = "modbus" ->
                    ModbusShape(d, DeviceKey(device), cfg)
              [] device.technology = "lorawan" ->
                    LorawanShape(d, DeviceKey(device), cfg)
              [] device.technology = "wmbus" ->
                    WmbusShape(d, DeviceKey(device), cfg)

\* C16: in every export, each device's technology_config has the technology
\* key and otherwise only the fields of the config row its technology
\* selects, each present exactly when the exporter's rule says so, the
\* registers in non-decreasing address order; it is exactly {technology}
\* when the selected row does not exist.
C16_TechConfigShape ==
    [][Export =>
        \A device \in db.devices :
            TechConfigShape(db, device,
                WrittenDocument(fs', device).technology_config)]_vars

\* An export has written a modbus device whose two registers were created
\* with the higher address first, and they are listed by address.
C16_Witness ==
    /\ out.op = "export"
    /\ \E device \in snap.devices :
        /\ device.technology = "modbus"
        /\ \E r, s \in RowsOf(snap.registers, DeviceKey(device)) :
                r.n < s.n /\ r.address > s.address
        /\ FileName(device.vendor) \in DOMAIN fs.files
        /\ LET cfg == WrittenDocument(fs, device).technology_config
           IN  /\ "register_definitions" \in Keys(cfg)
               /\ Len(cfg.register_definitions) = 2
               /\ cfg.register_definitions[1].address
                    < cfg.register_definitions[2].address


\* C17: for every device of every catalog, the technology_config of the
\* API serializer has the same keys and values as the technology_config of
\* the YAML exporter.
C17_ApiTechConfigEqualsExport ==
    \A device \in db.devices :
        to_representation(db, device) = _export_tech_config(db, device)

\* The detail of a LoRaWAN device with downlink port 0 was served, with the
\* port in its technology_config.
C17_Witness ==
    /\ out.op = "detail"
    /\ out.body.technology_config.technology = "lorawan"
    /\ "downlink_f_port" \in DOMAIN out.body.technology_config
    /\ out.body.technology_config.downlink_f_port = 0
    /\ \E device \in db.devices :
        /\ DeviceKey(device) = out.device
        /\ out.body.technology_config = _export_tech_config(db, device)

\* C18: for every device, control_config and processor_config of the sync
\* API's device detail equal the ones the YAML exporter emits: control_config
\* is {} without a ControlConfig row and {capabilities, controllable}
\* otherwise; processor_config is {} without a ProcessorConfig row or with
\* an empty decoder_type and {decoder_type} otherwise.
C18_ApiConfigsEqualExport ==
    \A device \in db.devices :
        /\ get_control_config(db, device) = _export_control_config(db, device)
        /\ get_processor_config(db, device)
             = _export_processor_config(db, device)
        /\ Keys(get_processor_config(db, device)) =
             IF \E c \in RowsOf(db.processor, DeviceKey(device)) :
                    c.decoder_type # ""
             THEN {"decoder_type"} ELSE {}


(***************************************************************************)
(* The manifest endpoint (api/viewsets.py).  A response is kept in out     *)
(* with the ETag the client holds afterwards (held), the payload that ETag *)
(* was issued for (seen); snap keeps the catalog it was issued for.        *)
(***************************************************************************)
\* The data dict of ManifestViewSet.list.
ManifestData(d, rows) ==
    LET current == {r \in rows : r.is_current}
        first == CHOOSE r \in current : TRUE
    IN  [version |-> IF current # {} THEN VersionString(first.pk) ELSE "0.0.0",
         schema_version |-> IF current # {} THEN first.schema_version ELSE 2,
         vendor_count |-> Cardinality(d.vendors),
         device_count |-> Cardinality(d.devices)]

\* ManifestSerializer(data).data
ManifestSerializer(data) ==
    [tag |-> "map", version |-> data.version,
     schema_version |-> data.schema_version,
     vendor_count |-> data.vendor_count, device_count |-> data.device_count]

\* str(data): the text of the dict, its keys in the order of insertion.
Str(data) ==
    <<"version", data.version, "schema_version", data.schema_version,
      "vendor_count", data.vendor_count, "device_count", data.device_count>>

\* hashlib.md5(text).hexdigest(): a digest that stands for the text hashed;
\* two texts of the model never collide.
Md5(text) == [md5 |-> text]

\* f'"{etag}"'
Quoted(etag) == [quoted |-> etag]

\* A plausible slip: the counts are left out of the text that is hashed.
ManifestETagVersionOnly(data) ==
    Quoted(Md5(<<"version", data.version,
                 "schema_version", data.schema_version>>))

ManifestETag(data) == Quoted(Md5(Str(data)))

\* request.headers.get("If-None-Match", "") without the header, and a
\* header value no response ever carried.
NoHeader == Quoted(Md5(<<>>))
StaleHeader == Quoted(Md5(<<"stale">>))
NoBody == [tag |-> "none"]

Held == IF out.op = "manifest" THEN out.held ELSE NoHeader

\* ManifestViewSet.list
ManifestRequest(if_none_match) ==
    LET data == ManifestData(db, versions)
        etag == ManifestETag(data)
    IN  /\ Returned
        /\ IF if_none_match = etag
           THEN /\ out' = [op |-> "manifest", status |-> 304, body |-> NoBody,
                           etag |-> NoHeader, held |-> Held,
                           seen |-> out.seen]
                /\ snap' = snap
           ELSE /\ out' = [op |-> "manifest", status |-> 200,
                           body |-> ManifestSerializer(data),
                           etag |-> etag, held |-> etag,
                           seen |-> ManifestSerializer(data)]
                /\ snap' = db
        /\ UNCHANGED <<versions, saves, db, fs, imp>>

\* The requests of a client: without the header, with the ETag it holds, or
\* with another value.
ManifestGet ==
    \E if_none_match \in {NoHeader, Held, StaleHeader} :
        ManifestRequest(if_none_match)

ManifestDisks ==
    {MakeDisk(<<VendorAcme>>,
              [f \in {"acme.yaml"} |-> FileDoc(<<DevModbus, DevWmbus>>)])}

\* The first release of the library.
FirstRelease ==
    /\ versions = {}
    /\ VersionCreate

InitManifest ==
    /\ InitVersions
    /\ db = EmptyCatalog
    /\ fs \in ManifestDisks
    /\ imp = IdleImport
    /\ snap = EmptyCatalog
    /\ out = NoOutput

NextManifest ==
    \/ DiskImportStart(FALSE)
    \/ DiskImportVendor
    \/ DiskImportEntry
    \/ DeviceTypeUpdate
    \/ DeviceTypeDelete
    \/ FirstRelease
    \/ ManifestGet

SpecManifest == InitManifest /\ [][NextManifest]_vars

\* The four values of a catalog state, stated from the tables.
FourValues ==
    [tag |-> "map",
     version |-> IF CurrentVersions = {} THEN "0.0.0"
                 ELSE VersionString((CHOOSE r \in CurrentVersions : TRUE).pk),
     schema_version |-> IF CurrentVersions = {} THEN 2
                 ELSE (CHOOSE r \in CurrentVersions : TRUE).schema_version,
     vendor_count |-> Cardinality(db.vendors),
     device_count |-> Cardinality(db.devices)]

\* C19: a manifest request whose If-None-Match is the ETag issued for a
\* state with the same four values gets 304 without a body; any other
\* request gets 200 with the payload of the four values and an ETag; the
\* ETags of two states are equal exactly when their four values are.
C19_ManifestETag ==
    [][\A h \in {NoHeader, Held, StaleHeader} : ManifestRequest(h) =>
        /\ out'.status \in {200, 304}
        /\ out'.status = 304 <=>
                (h = Held /\ out.op = "manifest" /\ out.seen = FourValues)
        /\ out'.status = 304 => out'.body = NoBody
        /\ out'.status = 200 =>
            /\ out'.body = FourValues
            /\ Keys(out'.body) = {"version", "schema_version", "vendor_count",
                                  "device_count"}
            /\ out'.etag \notin {NoHeader, StaleHeader}
            /\ out.op = "manifest" =>
                    (out'.etag = out.held <=> FourValues = out.seen)]_vars

\* A client got 200 with an ETag, sent it back for an unchanged state and
\* got 304 without a body.
C19_Witness ==
    /\ out.op = "manifest"
    /\ out.status = 304
    /\ out.body = NoBody
    /\ out.held = ManifestETag(ManifestData(db, versions))
    /\ out.seen.device_count = 2
    /\ out.seen.version = "1.0.0"


\* The technology_config of a device as stored: its technology value, its
\* config rows and its register definitions.
StoredTechConfig(d, device) ==
    <<device.technology, RowsOf(d.modbus, DeviceKey(device)),
      RowsOf(d.lorawan, DeviceKey(device)), RowsOf(d.wmbus, DeviceKey(device)),
      RowsOf(d.registers, DeviceKey(device))>>

\* Some device of both catalogs has another technology_config in the second.
TechConfigChanged(before, after) ==
    \E x \in before.devices, y \in after.devices :
        /\ DeviceKey(x) = DeviceKey(y)
        /\ StoredTechConfig(before, x) # StoredTechConfig(after, y)

\* C20: after a change to a device's technology_config, a manifest request
\* that sends the ETag issued before the change does not get 304: it gets
\* 200 with another ETag.
C20_TechConfigChangeChangesETag ==
    [][(/\ out.op = "manifest"
        /\ TechConfigChanged(snap, db)
        /\ ManifestRequest(out.held))
        => (out'.status = 200 /\ out'.etag # out.held)]_vars


(***************************************************************************)
(* Access: API keys, roles and invitations (library/api/permissions.py,    *)
(* library/api/viewsets.py, core/models.py, core/permissions.py,           *)
(* core/views.py).  In this part db holds the tables api_keys and          *)
(* invitations, the users, e-mails and audit entries, and the time of the  *)
(* last request; a request names its user by the role, or "anonymous".     *)
(***************************************************************************)
MaxKeys == 2
MaxClock == 2

\* A plausible slip: ">" where the comparison is ">=".
has_role_strict(role, minimum_role) ==
    LET ROLE_HIERARCHY(r) == CASE r = "viewer" -> 0 [] r = "editor" -> 1
                               [] r = "admin" -> 2 [] OTHER -> 0
    IN  ROLE_HIERARCHY(role) > ROLE_HIERARCHY(minimum_role)

\* User.has_role with ROLE_HIERARCHY.get(role, 0)
has_role(role, minimum_role) ==
    LET ROLE_HIERARCHY(r) == CASE r = "viewer" -> 0 [] r = "editor" -> 1
                               [] r = "admin" -> 2 [] OTHER -> 0
    IN  ROLE_HIERARCHY(role) >= ROLE_HIERARCHY(minimum_role)

\* IsEditorOrAdmin.has_permission
IsEditorOrAdmin(user) ==
    IF user = "anonymous" THEN FALSE ELSE has_role(user, "editor")

\* A plausible slip: the lookup leaves is_active out.
ActiveKeyAnyRow(keys, api_key) == {k \in keys : k.key = api_key}

\* APIKey.objects.get(key=api_key, is_active=True): the rows it finds.
ActiveKey(keys, api_key) == {k \in keys : k.key = api_key /\ k.is_active}

\* A request to an endpoint of the sync API at time t, answered by
\* IsAPIKeyOrSessionAuth.has_permission: with a header the key decides and
\* a key found is stamped, without one the session decides.
SyncCall(api_key, session, t) ==
    LET keys == db.api_keys
        found == ActiveKey(keys, api_key)
        key_obj == CHOOSE k \in found : TRUE
        res == IF api_key # ""
               THEN IF found # {}
                    THEN [permitted |-> TRUE,
                          keys |-> (keys \ {key_obj}) \cup
                                   {[key_obj EXCEPT !.last_used_at = t]}]
                    ELSE [permitted |-> FALSE, keys |-> keys]
               ELSE [permitted |-> session, keys |-> keys]
    IN  /\ db' = [db EXCEPT !.api_keys = res.keys, !.now = t]
        /\ out' = [op |-> "sync", status |-> IF res.permitted THEN 200 ELSE 403,
                   body |-> {}, sent |-> api_key]
        /\ UNCHANGED <<versions, saves, fs, imp, snap>>

\* AdminAPIKeyViewSet.create: a row with a new id and a generated key,
\* answered through APIKeySerializer (id, name, key, is_active, last_used_at).
KeyCreate(user, is_active) ==
    /\ db.issued < MaxKeys
    /\ IF IsEditorOrAdmin(user)
       THEN LET id == db.issued + 1
                row == [id |-> id, name |-> "service",
                        key |-> CASE id = 1 -> "key-1" [] id = 2 -> "key-2"
                                  [] OTHER -> "key-3",
                        is_active |-> is_active, last_used_at |-> NullInt]
            IN  /\ db' = [db EXCEPT !.api_keys = @ \cup {row}, !.issued = id]
                /\ out' = [op |-> "create", status |-> 201,
                           body |-> {[f \in {"id", "name", "key", "is_active",
                                              "last_used_at"} |-> row[f]]}]
       ELSE db' = db /\ out' = [op |-> "create", status |-> 403, body |-> {}]
    /\ UNCHANGED <<versions, saves, fs, imp, snap>>

\* AdminAPIKeyViewSet.list: the rows through APIKeySerializer.
KeyList(user) ==
    /\ out' = IF IsEditorOrAdmin(user)
              THEN [op |-> "list", status |-> 200,
                    body |-> {[f \in {"id", "name", "key", "is_active",
                                       "last_used_at"} |-> row[f]]
                                : row \in db.api_keys}]
              ELSE [op |-> "list", status |-> 403, body |-> {}]
    /\ UNCHANGED <<versions, saves, db, fs, imp, snap>>

\* AdminAPIKeyViewSet.revoke
KeyRevoke(user, id) ==
    /\ \E key \in db.api_keys : key.id = id
    /\ IF IsEditorOrAdmin(user)
       THEN /\ db' = [db EXCEPT !.api_keys =
                        {IF key.id = id THEN [key EXCEPT !.is_active = FALSE]
                         ELSE key : key \in @}]
            /\ out' = [op |-> "revoke", status |-> 200,
                       body |-> {[status |-> "revoked"]}]
       ELSE db' = db /\ out' = [op |-> "revoke", status |-> 403, body |-> {}]
    /\ UNCHANGED <<versions, saves, fs, imp, snap>>


MaxMails == 2

\* Invitation.is_valid at time t
is_valid(inv, t) ==
    ~inv.revoked /\ inv.accepted_at = NullInt /\ inv.expires_at > t

\* Invitation.status at time t
status(inv, t) ==
    IF inv.accepted_at # NullInt THEN "accepted"
    ELSE IF inv.revoked THEN "revoked"
    ELSE IF inv.expires_at <= t THEN "expired"
    ELSE "pending"

\* InvitationCreateView under RoleRequiredMixin.dispatch (required_role
\* admin).  LoginRequiredMixin turns an anonymous request away; for a user
\* that is logged in super().dispatch runs the handler (the Invitation row,
\* the e-mail, the audit entry) and the role is looked at afterwards;
\* PermissionDenied rolls the request's rows back (ATOMIC_REQUESTS), the
\* e-mail is out.
InvitationCreate(user, t) ==
    /\ db.mails < MaxMails
    /\ IF user = "anonymous"
       THEN db' = [db EXCEPT !.now = t]
            /\ out' = [op |-> "invite", status |-> 302, body |-> {}]
       ELSE LET inv == [id |-> db.mails + 1, revoked |-> FALSE,
                        accepted_at |-> NullInt, expires_at |-> t + 1]
                handled == [db EXCEPT !.invitations = @ \cup {inv},
                                      !.mails = @ + 1, !.audit = @ + 1,
                                      !.now = t]
            IN  IF has_role(user, "admin")
                THEN db' = handled
                     /\ out' = [op |-> "invite", status |-> 302, body |-> {}]
                ELSE db' = [handled EXCEPT !.invitations = db.invitations,
                                           !.audit = db.audit]
                     /\ out' = [op |-> "invite", status |-> 403, body |-> {}]
    /\ UNCHANGED <<versions, saves, fs, imp, snap>>

\* InvitationRevokeView.post under the same mixin: its effects are rows
\* only, so a request denied afterwards leaves nothing.
InvitationRevoke(user, t) ==
    /\ user # "anonymous"
    /\ \E inv \in db.invitations :
        IF has_role(user, "admin")
        THEN /\ db' = IF inv.accepted_at # NullInt \/ inv.revoked
                      THEN [db EXCEPT !.now = t]
                      ELSE [db EXCEPT !.invitations = (@ \ {inv}) \cup
                                        {[inv EXCEPT !.revoked = TRUE]},
                                      !.audit = @ + 1, !.now = t]
             /\ out' = [op |-> "revoke_invitation", status |-> 302, body |-> {}]
        ELSE /\ db' = [db EXCEPT !.now = t]
             /\ out' = [op |-> "revoke_invitation", status |-> 403, body |-> {}]
    /\ UNCHANGED <<versions, saves, fs, imp, snap>>

\* AcceptInvitationView.post, first step: get_object_or_404 and is_valid.
AcceptCheck(p, t) ==
    /\ db.accept[p] = 0
    /\ \E inv \in db.invitations :
        /\ db' = [db EXCEPT !.accept[p] = IF is_valid(inv, t) THEN inv.id ELSE 0,
                            !.now = t]
        /\ out' = [op |-> "accept", status |-> 200, body |-> {}]
    /\ UNCHANGED <<versions, saves, fs, imp, snap>>

\* AcceptInvitationView.post, second step: with a valid form create_user
\* and the save of accepted_at and accepted_by; with an invalid form (or a
\* write the database refuses) nothing.
AcceptCreate(p, created, t) ==
    /\ db.accept[p] # 0
    /\ LET inv == CHOOSE i \in db.invitations : i.id = db.accept[p]
       IN  IF created
           THEN /\ db' = [db EXCEPT !.users = @ \cup
                                        {[invitation |-> inv.id, request |-> p]},
                                    !.invitations = (@ \ {inv}) \cup
                                        {[inv EXCEPT !.accepted_at = t]},
                                    !.accept[p] = 0, !.now = t]
                /\ out' = [op |-> "accept", status |-> 302, body |-> {}]
           ELSE /\ db' = [db EXCEPT !.accept[p] = 0, !.now = t]
                /\ out' = [op |-> "accept", status |-> 200, body |-> {}]
    /\ UNCHANGED <<versions, saves, fs, imp, snap>>

InitAccess ==
    /\ InitVersions
    /\ db = [api_keys |-> {}, issued |-> 0, now |-> 0, invitations |-> {},
             users |-> {}, mails |-> 0, audit |-> 0,
             accept |-> [p \in Procs |-> 0]]
    /\ fs = NoDisk
    /\ imp = IdleImport
    /\ snap = EmptyCatalog
    /\ out = NoOutput

\* The API keys: sync requests and the admin API's key operations.
NextKeys ==
    \/ \E api_key \in {"", "key-1", "key-2", "key-3", "unknown"},
          session \in BOOLEAN, t \in db.now..MaxClock :
            SyncCall(api_key, session, t)
    \/ \E user \in {"anonymous", "viewer", "editor", "admin", "owner"} :
        \/ \E is_active \in BOOLEAN : KeyCreate(user, is_active)
        \/ KeyList(user)
        \/ \E id \in 1..MaxKeys : KeyRevoke(user, id)

SpecKeys == InitAccess /\ [][NextKeys]_vars

\* The invitations: created, revoked and accepted by two requests at once.
NextInvite ==
    \/ \E user \in {"anonymous", "viewer", "editor", "admin", "owner"},
          t \in db.now..MaxClock :
        \/ InvitationCreate(user, t)
        \/ InvitationRevoke(user, t)
    \/ \E p \in Procs, t \in db.now..MaxClock :
        \/ AcceptCheck(p, t)
        \/ \E created \in BOOLEAN : AcceptCreate(p, created, t)

SpecInvite == InitAccess /\ [][NextInvite]_vars


Users == {"anonymous", "viewer", "editor", "admin", "owner"}
Headers == {"", "key-1", "key-2", "key-3", "unknown"}

\* C21: a sync API request is permitted if and only if its X-API-Key is the
\* key of an active APIKey row or it comes from an authenticated session,
\* whatever the combination of header and session.
C21_KeyOrSession ==
    [][\A api_key \in Headers, session \in BOOLEAN, t \in 0..MaxClock :
        SyncCall(api_key, session, t) =>
            (out'.status = 200 <=>
                \/ \E k \in db.api_keys : k.key = api_key /\ k.is_active
                \/ session)]_vars

\* C22: revoking a key sets is_active to false and changes nothing else; a
\* request that has only a revoked key is denied and leaves the table as
\* it was; no operation makes an inactive key active.
C22_RevokedStaysRevoked ==
    [][/\ \A user \in Users, id \in 1..MaxKeys :
            (KeyRevoke(user, id) /\ out'.status = 200) =>
                db'.api_keys =
                    {[k EXCEPT !.is_active = IF k.id = id THEN FALSE ELSE @]
                        : k \in db.api_keys}
       /\ \A api_key \in Headers, t \in 0..MaxClock :
            (/\ SyncCall(api_key, FALSE, t)
             /\ \E k \in db.api_keys : k.key = api_key /\ ~k.is_active)
            => (out'.status = 403 /\ db'.api_keys = db.api_keys)
       /\ \A k \in db.api_keys, n \in db'.api_keys :
            (k.id = n.id /\ ~k.is_active) => ~n.is_active]_vars

\* A key was used, revoked, and a later request with it was denied; its
\* last_used_at is still the time of the earlier use.
C22_Witness ==
    /\ out.op = "sync"
    /\ out.status = 403
    /\ \E k \in db.api_keys :
        /\ k.key = out.sent
        /\ ~k.is_active
        /\ k.last_used_at # NullInt
        /\ k.last_used_at < db.now

\* C23: no response of list or revoke contains the key value of an
\* existing API key.
C23_KeyOnlyAtCreate ==
    [][\A user \in Users, id \in 1..MaxKeys :
        (KeyList(user) \/ KeyRevoke(user, id)) =>
            \A k \in db'.api_keys, r \in out'.body :
                "key" \in DOMAIN r => r.key # k.key]_vars

RoleBelow == {<<"viewer", "editor">>, <<"viewer", "admin">>, <<"editor", "admin">>}

\* C24: an admin API request is permitted if and only if its session user
\* has the role editor or admin (a viewer, an unknown role and a request
\* without a session are denied), and a user who has a role has every role
\* ranked below it.
C24_EditorOrAdminOnly ==
    /\ [](\A user \in Users \ {"anonymous"}, pair \in RoleBelow :
            has_role(user, pair[2]) => has_role(user, pair[1]))
    /\ [][\A user \in Users, is_active \in BOOLEAN, id \in 1..MaxKeys :
            (KeyCreate(user, is_active) \/ KeyList(user) \/ KeyRevoke(user, id))
            => (out'.status # 403 <=> user \in {"editor", "admin"})]_vars

\* A key was created by a permitted request and a list request was denied.
C24_Witness ==
    /\ db.api_keys # {}
    /\ out.op = "list"
    /\ out.status = 403


\* C26: a request to a view under RoleRequiredMixin from a user who is
\* logged in and whose role ranks below the required role has none of the
\* handler's effects: no row, no e-mail, no audit entry.
C26_RoleCheckBeforeHandler ==
    [][\A user \in {"viewer", "editor", "owner"}, t \in 0..MaxClock :
        (InvitationCreate(user, t) \/ InvitationRevoke(user, t)) =>
            /\ out'.status = 403
            /\ db'.invitations = db.invitations
            /\ db'.mails = db.mails
            /\ db'.audit = db.audit]_vars

\* C30: an invitation gives at most one user account under any interleaving
\* of the accepting requests; a user is created only for an invitation that
\* is valid at that time; is_valid is true exactly when status is pending.
C30_OneUserPerInvitation ==
    /\ [](\A inv \in db.invitations :
            /\ Cardinality({u \in db.users : u.invitation = inv.id}) <= 1
            /\ \A t \in 0..MaxClock :
                is_valid(inv, t) <=> status(inv, t) = "pending")
    /\ [][\A p \in Procs, t \in 0..MaxClock :
            AcceptCreate(p, TRUE, t) =>
                \E inv \in db.invitations :
                    inv.id = db.accept[p] /\ is_valid(inv, t)]_vars


(***************************************************************************)
(* Referential integrity of the catalog: the vendor admin, the device      *)
(* views and import runs with clear=True over a catalog of two vendors.    *)
(***************************************************************************)
\* VendorAdmin: the change form renames a vendor, its slug staying as
\* saved; the delete view deletes the row, and out tells the DeviceType
\* rows, the ModbusConfig rows and the registers deleted with it.
VendorAdmin ==
    /\ Returned
    /\ \E v \in db.vendors :
        \/ \E name \in {"Acme", "ACME"} :
            /\ name # v.name
            /\ db' = [db EXCEPT !.vendors = (@ \ {v}) \cup
                        {[v EXCEPT !.name = name]}]
            /\ out' = [op |-> "vendor_change", vendor |-> v.slug,
                       deleted |-> {}, modbus |-> 0, registers |-> 0]
        \/ LET gone == {DeviceKey(r) :
                            r \in {x \in db.devices : x.vendor = v.slug}}
           IN  /\ db' = DeleteVendors(db, {v.slug})
               /\ out' = [op |-> "vendor_delete", vendor |-> v.slug,
                          deleted |-> gone,
                          modbus |-> Cardinality({r \in db.modbus :
                                                    r.device \in gone}),
                          registers |-> Cardinality({r \in db.registers :
                                                    r.device \in gone})]
    /\ UNCHANGED <<versions, saves, fs, imp, snap>>

SpecCascade ==
    InitExport /\ [][\/ DiskImportStart(TRUE)
                     \/ ImportClearDevices
                     \/ ImportClearVendors
                     \/ DiskImportVendor
                     \/ DiskImportEntry
                     \/ DeviceTypeCreate
                     \/ DeviceTypeDelete
                     \/ VendorAdmin]_vars

ConfigTables == {"modbus", "lorawan", "wmbus", "control", "processor"}

\* No DeviceType without its Vendor, no config row without its DeviceType,
\* no register without its ModbusConfig, no second row of a kind.
NoOrphanNoDuplicate(d) ==
    /\ \A r \in d.devices : \E v \in d.vendors : v.slug = r.vendor
    /\ \A table \in ConfigTables : \A row \in d[table] :
        /\ \E r \in d.devices : DeviceKey(r) = row.device
        /\ Cardinality(RowsOf(d[table], row.device)) = 1
    /\ \A reg \in d.registers : RowsOf(d.modbus, reg.device) # {}

\* The rows that hang on a vendor: its devices, their configs and registers.
VendorOwns(d, slug) ==
    {r \in d.devices : r.vendor = slug}
        \cup UNION {{row \in d[table] : row.device[1] = slug}
                        : table \in ConfigTables \cup {"registers"}}

DevicesCounted(st) == st.devices_created + st.devices_updated

DeviceErrors(st) ==
    Cardinality({i \in 1..Len(st.errors) : st.errors[i].kind = "device"})

\* C27: every pass of the device loop after which the run goes on adds one
\* to exactly one of devices_created + devices_updated and the per-device
\* errors, so that in a run that returns the three add up to the entries
\* processed and an entry with an error is not counted as created or updated.
C27_CountsAddUp ==
    [][(imp.pc = "devices" /\ imp'.pc # "raised") =>
        (DevicesCounted(imp'.stats) - DevicesCounted(imp.stats))
            + (DeviceErrors(imp'.stats) - DeviceErrors(imp.stats)) = 1]_vars


(***************************************************************************)
(* The combined sync endpoint (api/viewsets.py).  A DeviceType row carries *)
(* modified, the time of its last save (TimeStampedModel), and db.now is   *)
(* the clock; snap keeps the ETag and the payload of the client's last 200 *)
(* response.                                                               *)
(***************************************************************************)
\* DeviceTypeCreateView and DeviceTypeUpdateView: the save of a new or an
\* existing row stamps modified; the config rows stay as they are.
DeviceTypeSave ==
    /\ Returned
    /\ db.now < MaxClock
    /\ \E v \in db.vendors, m \in {"M1", "M2"},
          technology \in {"modbus", "lorawan"} :
        db' = [db EXCEPT
                !.devices = {r \in @ : DeviceKey(r) # <<v.slug, m>>} \cup
                    {[vendor |-> v.slug, model_number |-> m, name |-> "Manual",
                      device_type |-> "power_meter", technology |-> technology,
                      description |-> "", modified |-> db.now + 1]},
                !.now = @ + 1]
    /\ UNCHANGED <<versions, saves, fs, imp, snap, out>>

\* SyncViewSet.list: the requests of a client without the header, with the
\* ETag it holds, or with another value.
SyncList ==
    /\ Returned
    /\ \E if_none_match \in {NoHeader, snap.etag, StaleHeader} :
        LET stamps == {r.modified : r \in db.devices}
            last_modified == CHOOSE t \in stamps : \A u \in stamps : u <= t
            etag == Quoted(Md5(<<"modified", last_modified>>))
            current == ManifestVersion(versions)
            data == [version |-> current.version,
                     schema_version |-> current.schema_version,
                     vendors |->
                        {[name |-> v.name, slug |-> v.slug,
                          device_types |->
                            {DeviceTypeDetailSerializer(db, obj) :
                                obj \in {r \in db.devices : r.vendor = v.slug}}]
                            : v \in db.vendors}]
        IN  IF stamps # {} /\ if_none_match = etag
            THEN /\ out' = [op |-> "sync", status |-> 304, body |-> NoBody,
                            etag |-> NoHeader]
                 /\ snap' = snap
            ELSE /\ out' = [op |-> "sync", status |-> 200, body |-> data,
                            etag |-> IF stamps # {} THEN etag ELSE NoHeader]
                 /\ snap' = IF stamps # {}
                            THEN [etag |-> etag, payload |-> data]
                            ELSE snap
    /\ UNCHANGED <<versions, saves, db, fs, imp>>

InitSync ==
    /\ InitVersions
    /\ db = [vendors |-> {[slug |-> "acme", name |-> "Acme"]},
             devices |-> {}, modbus |-> {}, registers |-> {}, lorawan |-> {},
             wmbus |-> {}, control |-> {}, processor |-> {}, now |-> 0]
    /\ fs = NoDisk
    /\ imp = IdleImport
    /\ snap = [etag |-> NoHeader, payload |-> NoBody]
    /\ out = NoOutput

SpecSync ==
    InitSync /\ [][\/ DeviceTypeSave
                   \/ DeviceTypeDelete
                   \/ ProcessorConfigSave
                   \/ VendorAdmin
                   \/ FirstRelease
                   \/ SyncList]_vars

\* The payload of the catalog as it stands, stated from the tables.
PayloadNow ==
    [version |-> IF CurrentVersions = {} THEN "0.0.0"
                 ELSE VersionString((CHOOSE r \in CurrentVersions : TRUE).pk),
     schema_version |-> IF CurrentVersions = {} THEN 2
                 ELSE (CHOOSE r \in CurrentVersions : TRUE).schema_version,
     vendors |->
        {[name |-> v.name, slug |-> v.slug,
          device_types |->
            {DeviceTypeDetailSerializer(db, obj) :
                obj \in {r \in db.devices : r.vendor = v.slug}}]
            : v \in db.vendors}]

\* C28: whenever the combined sync endpoint answers 304 to the ETag of the
\* client's last 200 response, the payload of the catalog as it stands
\* equals the payload of that response, whatever changed in between; with
\* no DeviceType row it never answers 304.
C28_NotModifiedMeansSamePayload ==
    [][(SyncList /\ out'.status = 304) =>
        /\ db.devices # {}
        /\ PayloadNow = snap.payload]_vars


\* The technology kinds a device holds a config row of.
KindsHeld(d, device) ==
    {kind \in Technologies : RowsOf(d[kind], DeviceKey(device)) # {}}

\* The keys a technology_config takes from a row of the kind.
KindKeys(kind) ==
    CASE kind = "modbus" ->
            {"function", "byte_order", "word_order", "register_definitions"}
      [] kind = "lorawan" -> {"device_class", "downlink_f_port"}
      [] kind = "wmbus" ->
            {"manufacturer_code", "wmbus_device_type", "data_record_mapping",
             "encryption_required", "shared_encryption_key"}

\* No key of a row of another kind than the device's technology, and the
\* fields of the row of its technology as the row holds them.
OnlyOwnKind(d, device, cfg) ==
    /\ \A kind \in Technologies \ {device.technology} :
            Keys(cfg) \cap KindKeys(kind) = {}
    /\ TechConfigShape(d, device, cfg)

\* C29: for a device that holds config rows of more than one technology
\* kind, the technology_config of the API and the one every export writes
\* contain the fields of the row of the device's technology and no field
\* or register of a row of another kind.
C29_OnlyOwnKindInOutput ==
    /\ [](\A device \in db.devices :
            Cardinality(KindsHeld(db, device)) > 1 =>
                OnlyOwnKind(db, device, to_representation(db, device)))
    /\ [][Export =>
            \A device \in db.devices :
                Cardinality(KindsHeld(db, device)) > 1 =>
                    OnlyOwnKind(db, device,
                        WrittenDocument(fs', device).technology_config)]_vars

\* An export has written a lorawan device that also holds a ModbusConfig
\* row with registers, left by an earlier entry of the same model number.
C29_Witness ==
    /\ out.op = "export"
    /\ snap = db
    /\ \E device \in db.devices :
        /\ device.technology = "lorawan"
        /\ KindsHeld(db, device) = {"modbus", "lorawan"}
        /\ RowsOf(db.registers, DeviceKey(device)) # {}
        /\ FileName(device.vendor) \in DOMAIN fs.files
        /\ "device_class" \in
                Keys(WrittenDocument(fs, device).technology_config)

====
